---------------------------- MODULE Spec2Model ----------------------------
(***************************************************************************)
(* A model of the auto-store support layer: the Playwright browser/session *)
(* pool manager (PlaywrightService, src/src/playwright.service.ts), its    *)
(* parallel batch helper processItemsInParallel, and the RabbitMQ          *)
(* messaging service.  The source of the messaging service and of the      *)
(* brand-aware manager PlaywrightManager is not in src/: what the model    *)
(* has of them (RabbitMQService, managerLoginToOnchSite) follows the       *)
(* written specification of the repository.                                *)
(*                                                                         *)
(* Every async method of the manager is modelled as a frame on a task's    *)
(* call stack.  A step of a task runs the code from one resumption to the  *)
(* next `await`: JavaScript runs that stretch without interruption, and    *)
(* another task can only run at an await.  Calling an async method runs    *)
(* its body synchronously up to its first await (Run/Seg below), returning *)
(* to an awaiting caller is a suspension point of its own.                 *)
(*                                                                         *)
(* Browser, context (session) and page objects are rows of three tables;   *)
(* an object's identity is its row number.  Closing a browser closes its   *)
(* contexts and pages, closing a context closes its pages (Playwright).    *)
(* With one caller, a row whose object is closed and that nothing refers   *)
(* to any more is freed after the call and may hold a later object, so the *)
(* tables bound the objects alive at one time, not the length of the run.  *)
(* A step that would need a row when the table is full is not taken.       *)
(*                                                                         *)
(* Six systems are specified over the same variables: Spec (one caller,    *)
(* every call runs to its end), SpecConc (two callers interleaved at every *)
(* await, MaxCalls calls in all), SpecBatch (one call of                   *)
(* processItemsInParallel, its chunk closures interleaved at every await), *)
(* SpecSplit (one call of splitIntoChunks), SpecMqOps (the operations of   *)
(* the messaging service with two callers) and SpecMq (the same, where a   *)
(* cached client may be found disconnected).                               *)
(*                                                                         *)
(* Left out: shouldUseHeadless (it only feeds the launch options), the     *)
(* console output, the catch branch of releaseContext (lines 264-268:      *)
(* Page.context() is a synchronous getter and releasePage swallows the     *)
(* close error, so nothing inside that try block can throw), and failures  *)
(* of the browser itself (a launch, a newContext, a navigation or a close  *)
(* of a session or of the process that rejects on a healthy browser).  An  *)
(* operation on a closed object rejects.  The page.close() of a            *)
(* releasePage the caller makes may reject.                                *)
(***************************************************************************)
EXTENDS Integers, Sequences, FiniteSets, TLC

VARIABLES
    browsers,               \* launched Browser objects: [engine, state]
    contexts,               \* BrowserContext objects: [browser, open]
    pages,                  \* Page objects: [context, open, id]
    browser,                \* this.browser (0 = not yet assigned)
    isInitialized,          \* this.isInitialized
    selectedBrowserOption,  \* this.selectedBrowserOption
    contextPool,            \* this.contextPool, a Map in insertion order
    pagePool,               \* this.pagePool, a Map in insertion order
    tasks,                  \* the callers: call stack and bookkeeping
    quota,                  \* calls the concurrent callers may still begin
    job,                    \* the arguments of processItemsInParallel
    workers,                \* the chunk closures: [pc, i, localBatch, page]
    successCount,           \* successCount
    failCount,              \* failCount
    allResults,             \* allResults
    outcome,                \* the promise of the call: [state, value]
    attempts,               \* history: processItemFn invocations per item
    settled,                \* history: how processItemFn settled per item
    batches,                \* history: the onBatchComplete calls per chunk
    progress,               \* history: the onProgress calls
    cbThrew,                \* history: a callback has thrown or rejected
    split,                  \* a call of splitIntoChunks: arguments and result
    clients,                \* RabbitMQService: the Map queue -> {client, connected}
    clientCount,            \* the clients constructed so far (a client is its number)
    callers,                \* the calls of emit and send: one record per caller
    mqQuota,                \* calls of emit and send that may still begin
    shutdown,               \* the call of onApplicationShutdown
    constructed             \* history: clients constructed per queue since the
                            \* last shutdown

mvars == <<browsers, contexts, pages, browser, isInitialized,
           selectedBrowserOption, contextPool, pagePool, tasks, quota>>

bvars == <<job, workers, successCount, failCount, allResults, outcome,
           attempts, settled, batches, progress, cbThrew>>

\* what belongs neither to the pools nor to processItemsInParallel
qvars == <<clients, clientCount, callers, mqQuota, shutdown, constructed>>

xvars == <<split, qvars>>

vars == <<mvars, bvars, xvars>>

----------------------------------------------------------------------------
(* Bounds of the model *)

SeqBrowsers == 2
SeqContexts == 2
SeqPages == 2
ConcBrowsers == 2
ConcContexts == 2
ConcPages == 2
MaxParallel == 2
MaxCalls == 3
MaxGivenPages == 2
MaxItems == 5
MaxBatchSize == 2
MaxSplitLen == 10
MaxChunkCount == 4
MaxMqCalls == 3
MaxMqClients == 3

----------------------------------------------------------------------------
(* Identifiers *)

BrowserOption == {"chromium", "firefox", "webkit"}

\* the engines the callers of the model ask for
Engines == {"chromium", "firefox"}

Stores == {"A"}

\* the store values of the logins
LoginStores == {"linkedout", "A"}
CronIds == {"1"}

\* `context-${store}-${cronId}`
ParallelContextId(store, cronId) == "context-" \o store \o "-" \o cronId

\* a faulty variant of ParallelPageId: the index is left out of the id
ParallelPageIdSame(store, cronId, i) == "page-" \o store \o "-" \o cronId \o "-1"

\* `page-${store}-${cronId}-${i+1}`
ParallelPageId(store, cronId, i) ==
    "page-" \o store \o "-" \o cronId \o "-" \o ToString(i + 1)

\* the queue names, the errors and the replies of the messaging service
MqQueues == {"q1", "q2"}
MqErrors == {"e1", "e2"}
MqReplies == {"r1", "r2"}

\* the callers of emit and send
MqCallers == {1, 2}

\* the elements of the lists handed to splitIntoChunks on its own
SplitValues == {"a", "b"}

ContextIds == {ParallelContextId(s, c) : s \in Stores, c \in CronIds} \cup {"s2"}
PageIds == {ParallelPageId(s, c, i) : s \in Stores, c \in CronIds,
                                      i \in 0..(MaxParallel - 1)}

\* the session and the page the concurrent callers ask for
ConcContextIds == {"s2"}
ConcPageIds == {ParallelPageId("A", "1", 0)}

----------------------------------------------------------------------------
(* Maps in insertion order (the JavaScript Map) *)

IndexOf(pool, id) ==
    IF \E i \in 1..Len(pool) : pool[i].id = id
    THEN CHOOSE i \in 1..Len(pool) : pool[i].id = id
    ELSE 0

MapHas(pool, id) == IndexOf(pool, id) # 0

MapGet(pool, id) == pool[IndexOf(pool, id)]

\* Map.set: an existing key keeps its place, a new key goes last
MapSet(pool, entry) ==
    IF MapHas(pool, entry.id)
    THEN [pool EXCEPT ![IndexOf(pool, entry.id)] = entry]
    ELSE Append(pool, entry)

\* a faulty variant of MapDelete: the entry stays
MapDeleteNot(pool, id) == pool

MapDelete(pool, id) ==
    IF MapHas(pool, id)
    THEN SubSeq(pool, 1, IndexOf(pool, id) - 1)
         \o SubSeq(pool, IndexOf(pool, id) + 1, Len(pool))
    ELSE pool

MapKeys(pool) == {pool[i].id : i \in 1..Len(pool)}

----------------------------------------------------------------------------
(* Playwright objects *)

FreeBrowser == [used |-> FALSE, engine |-> "", state |-> "closed"]
FreeContext == [used |-> FALSE, browser |-> 0, open |-> FALSE]
FreePage == [used |-> FALSE, context |-> 0, open |-> FALSE, id |-> ""]

FreeRows(table) == {i \in DOMAIN table : ~table[i].used}

\* the row a new object takes
NewRow(table) == CHOOSE i \in FreeRows(table) : \A j \in FreeRows(table) : i <= j

BrowserOpen(bs, b) == b # 0 /\ bs[b].state = "open"

\* the rows of a table, as a sequence
Rows(f) == <<>> \o f

\* a faulty variant of CloseBrowser: the process is left running
CloseBrowserNot(st, b) == st

\* Browser.close(): the process ends, with every context and page of it
CloseBrowser(st, b) ==
    [st EXCEPT
        !.browsers[b].state = "closed",
        !.contexts = Rows([c \in DOMAIN st.contexts |->
            IF st.contexts[c].used /\ st.contexts[c].browser = b
            THEN [st.contexts[c] EXCEPT !.open = FALSE] ELSE st.contexts[c]]),
        !.pages = Rows([p \in DOMAIN st.pages |->
            IF st.pages[p].used /\ st.contexts[st.pages[p].context].browser = b
            THEN [st.pages[p] EXCEPT !.open = FALSE] ELSE st.pages[p]])]

\* BrowserContext.close(): the context ends, with every page of it
CloseContext(st, c) ==
    [st EXCEPT
        !.contexts[c].open = FALSE,
        !.pages = Rows([p \in DOMAIN st.pages |->
            IF st.pages[p].used /\ st.pages[p].context = c
            THEN [st.pages[p] EXCEPT !.open = FALSE] ELSE st.pages[p]])]

\* Page.close()
ClosePage(st, p) == [st EXCEPT !.pages[p].open = FALSE]

----------------------------------------------------------------------------
(* Tasks, frames and the bookkeeping of a call *)

NoFrame == [fn |-> "", pc |-> "start", cid |-> "", pid |-> "", opt |-> "",
            store |-> "", cron |-> "", n |-> 0, obj |-> 0, cur |-> 0, acc |-> <<>>,
            form |-> FALSE, fails |-> FALSE]

IdleTask == [stack |-> <<>>, rv |-> 0, top |-> NoFrame,
             events |-> <<>>]

NoCall == [op |-> "none", t |-> 0, cid |-> "", pid |-> "", opt |-> "", store |-> "",
           cron |-> "", n |-> 0, ok |-> TRUE, rv |-> 0, rvs |-> <<>>,
           events |-> <<>>]

Top(st, t) == st.tasks[t].stack[Len(st.tasks[t].stack)]

SetTop(st, t, f) ==
    LET k == Len(st.tasks[t].stack) IN [st EXCEPT !.tasks[t].stack[k] = f]

\* the frame on top suspends at an await and resumes at pc
Await(st, t, f, pc) == [SetTop(st, t, [f EXCEPT !.pc = pc]) EXCEPT !.go = "wait"]

\* the frame on top goes on without suspending
Goto(st, t, f, pc) == [SetTop(st, t, [f EXCEPT !.pc = pc]) EXCEPT !.go = "run"]

\* `await callee(...)`: the callee's body starts at once, the caller resumes at pc
Call(st, t, f, pc, callee) ==
    [SetTop(st, t, [f EXCEPT !.pc = pc]) EXCEPT
        !.tasks[t].stack = Append(@, callee), !.go = "run"]

\* the call of the task has settled
Settle(st, t, ok, v, vs) ==
    LET c == st.tasks[t].top IN
    [st EXCEPT
        !.tasks[t] = IdleTask,
        !.done = [op |-> c.fn, t |-> t, cid |-> c.cid, pid |-> c.pid, opt |-> c.opt,
                  store |-> c.store, cron |-> c.cron, n |-> c.n, ok |-> ok,
                  rv |-> v, rvs |-> vs,
                  events |-> st.tasks[t].events],
        !.go = "wait"]

\* `return v` of the frame on top: the awaiting caller resumes in a later step
Return(st, t, v) ==
    IF Len(st.tasks[t].stack) = 1
    THEN Settle(st, t, TRUE, v, <<>>)
    ELSE [st EXCEPT
            !.tasks[t].stack = SubSeq(@, 1, Len(@) - 1),
            !.tasks[t].rv = v,
            !.go = "wait"]

\* an error leaves the frame on top.  No frame below it changes the state on
\* the way out (the only handlers are the catch blocks of the two logins,
\* which log and rethrow), so the call of the task rejects at once.
Throw(st, t) == Settle(st, t, FALSE, 0, <<>>)

\* the call of task t has asked the browser for something: history
Logged(st, t, event) == [st EXCEPT !.tasks[t].events = Append(@, event)]

\* the tables of the model have no row left for the object the step creates:
\* the step is not taken
Full(st) == [st EXCEPT !.go = "full"]

\* The cursors of the Map iterators that are live in some frame: deleting the
\* entry at place k moves every cursor behind it one place down.
OnPagePool(f) == (f.fn = "closeAll" /\ f.pc = "pages")
                 \/ (f.fn = "releaseContext" /\ f.pc = "loop")

OnContextPool(f) == f.fn = "closeAll" /\ f.pc = "contexts"

\* a faulty variant of Deleted: the loops over the keys take no notice of
\* the deletion and step over the entry behind it
DeletedUnnoticed(st, k, pool) == st

Deleted(st, k, pool) ==
    [st EXCEPT !.tasks = Rows([t \in DOMAIN st.tasks |->
        [st.tasks[t] EXCEPT !.stack = Rows([i \in DOMAIN st.tasks[t].stack |->
            LET f == st.tasks[t].stack[i]
                on == IF pool = "pagePool" THEN OnPagePool(f) ELSE OnContextPool(f) IN
            IF on /\ k # 0 /\ f.cur >= k THEN [f EXCEPT !.cur = @ - 1] ELSE f])]])]

----------------------------------------------------------------------------
(* PlaywrightService: one operator per method.  Each takes the state st and *)
(* the task t whose top frame is in that method, and runs the frame from    *)
(* its pc to its next await, call or return.                                *)

Frame(fn) == [NoFrame EXCEPT !.fn = fn]

\* the switch of lines 96-107
BrowserTypeFor(option) ==
    CASE option = "firefox" -> "firefox"
      [] option = "webkit" -> "webkit"
      [] OTHER -> "chromium"

\* lines 94-119: the launch is requested; the task resumes when it resolves
Launch(st, t, f) ==
    IF FreeRows(st.browsers) = {} THEN Full(st) ELSE
    LET b == NewRow(st.browsers) IN
    Await([st EXCEPT
              !.browsers[b] = [used |-> TRUE,
                               engine |-> BrowserTypeFor(st.selectedBrowserOption),
                               state |-> "launching"],
              !.tasks[t].events = Append(@, "launch")],
          t, [f EXCEPT !.obj = b], "launched")

initializeBrowser(st, t) ==
    LET f == Top(st, t) IN
    CASE f.pc = "start" ->
            IF st.isInitialized
            THEN IF st.browsers[st.browser].engine # st.selectedBrowserOption
                 THEN Call([st EXCEPT !.tasks[t].events = Append(@, "teardown")],
                           t, f, "closed", Frame("closeAll"))
                 ELSE Return(st, t, st.browser)
            ELSE Launch(st, t, f)
      [] f.pc = "closed" ->
            Launch([st EXCEPT !.isInitialized = FALSE], t, f)
      [] f.pc = "launched" ->
            Return([st EXCEPT !.browsers[f.obj].state = "open",
                              !.browser = f.obj,
                              !.isInitialized = TRUE], t, f.obj)

setConfig(st, browserOption) == [st EXCEPT !.selectedBrowserOption = browserOption]

init(st, t) ==
    LET f == Top(st, t) IN
    CASE f.pc = "start" ->
            Call(setConfig(st, f.opt), t, f, "initialized", Frame("initializeBrowser"))
      [] f.pc = "initialized" ->
            Return(st, t, st.tasks[t].rv)

\* lines 187-194
ReturnContext(st, t, f) ==
    Return(st, t, MapGet(st.contextPool, f.cid).context)

\* a faulty variant of HasContext: the pool is never found to hold the session
HasContextNever(st, cid) == FALSE

\* line 154: this.contextPool.has(contextId)
HasContext(st, cid) == MapHas(st.contextPool, cid)

getOrCreateContext(st, t) ==
    LET f == Top(st, t) IN
    CASE f.pc = "start" ->
            IF ~st.isInitialized
            THEN Call(st, t, f, "check", Frame("initializeBrowser"))
            ELSE Goto(st, t, f, "check")
      [] f.pc = "check" ->
            IF ~HasContext(st, f.cid)
            THEN IF BrowserOpen(st.browsers, st.browser)
                 THEN IF FreeRows(st.contexts) = {} THEN Full(st) ELSE
                      LET c == NewRow(st.contexts) IN
                      Await([st EXCEPT !.contexts[c] =
                                [used |-> TRUE, browser |-> st.browser, open |-> TRUE]],
                            t, [f EXCEPT !.obj = c], "created")
                 ELSE Throw(st, t)
            ELSE ReturnContext(st, t, f)
      [] f.pc = "created" ->
            IF st.contexts[f.obj].open
            THEN Await(st, t, f, "scripted")
            ELSE Throw(st, t)
      [] f.pc = "scripted" ->
            IF st.contexts[f.obj].open
            THEN ReturnContext(
                    [st EXCEPT !.contextPool =
                        MapSet(@, [id |-> f.cid, context |-> f.obj])], t, f)
            ELSE Throw(st, t)

createPage(st, t) ==
    LET f == Top(st, t) IN
    CASE f.pc = "start" ->
            Call(st, t, f, "gotContext",
                 [Frame("getOrCreateContext") EXCEPT !.cid = f.cid])
      [] f.pc = "gotContext" ->
            LET context == st.tasks[t].rv IN
            IF st.contexts[context].open
            THEN IF FreeRows(st.pages) = {} THEN Full(st) ELSE
                 LET p == NewRow(st.pages) IN
                 Await([st EXCEPT !.pages[p] =
                           [used |-> TRUE, context |-> context, open |-> TRUE,
                            id |-> f.pid]],
                       t, [f EXCEPT !.obj = p], "paged")
            ELSE Throw(st, t)
      [] f.pc = "paged" ->
            IF st.pages[f.obj].open
            THEN Await([st EXCEPT !.pagePool =
                           MapSet(@, [id |-> f.pid, page |-> f.obj, contextId |-> f.cid])],
                       t, f, "routed")
            ELSE Throw(st, t)
      [] f.pc = "routed" ->
            IF st.pages[f.obj].open
            THEN Return(st, t, f.obj)
            ELSE Throw(st, t)

\* 0 stands for null
getPage(st, t) ==
    LET f == Top(st, t) IN
    Return(st, t, IF MapHas(st.pagePool, f.pid)
                  THEN MapGet(st.pagePool, f.pid).page ELSE 0)

\* lines 239-247; page.close() rejects when the frame says so, the page is
\* then left as it was and the error is logged by the handler of line 243
releasePage(st, t) ==
    LET f == Top(st, t) IN
    CASE f.pc = "start" ->
            IF MapHas(st.pagePool, f.pid)
            THEN LET page == MapGet(st.pagePool, f.pid).page IN
                 Await(Logged(IF f.fails THEN st ELSE ClosePage(st, page),
                              t, "page.close " \o f.pid),
                       t, [f EXCEPT !.obj = page], "closed")
            ELSE Return(st, t, 0)
      [] f.pc = "closed" ->
            LET k == IndexOf(st.pagePool, f.pid) IN
            Return(Deleted([st EXCEPT !.pagePool = MapDelete(@, f.pid)], k, "pagePool"),
                   t, 0)

\* a faulty variant of NextOfContext: the next entry, whatever its context
NextOfAny(st, cur, context) == IF cur < Len(st.pagePool) THEN cur + 1 ELSE 0

\* the next entry of pagePool behind the cursor whose page.context() is context
NextOfContext(st, cur, context) ==
    LET hits == {i \in (cur + 1)..Len(st.pagePool) :
                    st.pages[st.pagePool[i].page].context = context} IN
    IF hits = {} THEN 0 ELSE CHOOSE i \in hits : \A j \in hits : i <= j

releaseContext(st, t) ==
    LET f == Top(st, t) IN
    CASE f.pc = "start" ->
            IF MapHas(st.contextPool, f.cid)
            THEN Goto(st, t, [f EXCEPT !.obj = MapGet(st.contextPool, f.cid).context,
                                       !.cur = 0], "loop")
            ELSE Return(st, t, 0)
      [] f.pc = "loop" ->
            LET k == NextOfContext(st, f.cur, f.obj) IN
            IF k # 0
            THEN Call(st, t, [f EXCEPT !.cur = k], "loop",
                      [Frame("releasePage") EXCEPT !.pid = st.pagePool[k].id])
            ELSE Await(Logged(CloseContext(st, f.obj), t, "context.close " \o f.cid),
                       t, f, "contextClosed")
      [] f.pc = "contextClosed" ->
            LET k == IndexOf(st.contextPool, f.cid) IN
            Return(Deleted([st EXCEPT !.contextPool = MapDelete(@, f.cid)],
                           k, "contextPool"), t, 0)

closeAll(st, t) ==
    LET f == Top(st, t) IN
    CASE f.pc = "start" ->
            Goto(st, t, [f EXCEPT !.cur = 0], "pages")
      [] f.pc = "pages" ->
            IF f.cur < Len(st.pagePool)
            THEN Call(st, t, [f EXCEPT !.cur = @ + 1], "pages",
                      [Frame("releasePage") EXCEPT !.pid = st.pagePool[f.cur + 1].id])
            ELSE Goto(st, t, [f EXCEPT !.cur = 0], "contexts")
      [] f.pc = "contexts" ->
            IF f.cur < Len(st.contextPool)
            THEN Call(st, t, [f EXCEPT !.cur = @ + 1], "contexts",
                      [Frame("releaseContext") EXCEPT
                          !.cid = st.contextPool[f.cur + 1].id])
            ELSE IF st.browser # 0
                 THEN Await(Logged(CloseBrowser(st, st.browser), t, "browser.close"),
                            t, f, "browserClosed")
                 ELSE Return(st, t, 0)
      [] f.pc = "browserClosed" ->
            Return([st EXCEPT !.isInitialized = FALSE], t, 0)

\* lines 369-385 and 435-452, the same in both logins: the page of the login
ObtainLoginPage(st, t) ==
    LET f == Top(st, t) IN
    CASE f.pc = "start" ->
            IF ~st.isInitialized \/ st.browsers[st.browser].engine # f.opt
            THEN Call(st, t, f, "getPage", [Frame("init") EXCEPT !.opt = f.opt])
            ELSE Goto(st, t, f, "getPage")
      [] f.pc = "getPage" ->
            Call(st, t, f, "gotPage", [Frame("getPage") EXCEPT !.pid = f.pid])
      [] f.pc = "gotPage" ->
            LET existingPage == st.tasks[t].rv IN
            IF existingPage # 0 /\ st.pages[existingPage].open
            THEN Goto(st, t, [f EXCEPT !.obj = existingPage], "goto")
            ELSE Call(st, t, f, "created",
                      [Frame("createPage") EXCEPT !.cid = f.cid, !.pid = f.pid])
      [] f.pc = "created" ->
            Goto(st, t, [f EXCEPT !.obj = st.tasks[t].rv], "goto")

\* a step of a login on its page: what was awaited rejects when the page has
\* been closed, else the next operation on the page is awaited
PageStep(st, t, f, event, pc) ==
    IF st.pages[f.obj].open
    THEN Await([st EXCEPT !.tasks[t].events = Append(@, event)], t, f, pc)
    ELSE Throw(st, t)

\* the navigation and the form of a login: every step awaits the page and
\* rejects when the page has been closed
\* lines 398-405: the navigation, the two fields and the login button
OnchForm(st, t, creds) ==
    LET f == Top(st, t) IN
    CASE f.pc = "goto" -> PageStep(st, t, f, "goto", "navigated")
      [] f.pc = "navigated" -> PageStep(st, t, f, "fill email " \o creds.email, "email")
      [] f.pc = "email" ->
            PageStep(st, t, f, "fill password " \o creds.password, "password")
      [] f.pc = "password" -> PageStep(st, t, f, "click login", "clicked")

\* lines 388-395: both branches read the one shared pair
OnchCredentials(store) ==
    [email |-> IF store = "linkedout" THEN "ON_CHANNEL_EMAIL" ELSE "ON_CHANNEL_EMAIL",
     password |-> IF store = "linkedout" THEN "ON_CHANNEL_PASSWORD"
                  ELSE "ON_CHANNEL_PASSWORD"]

loginToOnchSite(st, t) ==
    LET f == Top(st, t) IN
    CASE f.pc \in {"goto", "navigated", "email", "password"} ->
            OnchForm(st, t, OnchCredentials(f.store))
      [] f.pc = "clicked" -> PageStep(st, t, f, "waitForLoadState", "loaded")
      [] f.pc = "loaded" ->
            IF st.pages[f.obj].open THEN Return(st, t, f.obj) ELSE Throw(st, t)
      [] OTHER -> ObtainLoginPage(st, t)

\* a faulty variant of ManagerOnchCredentials: the password of the other brand
ManagerOnchCredentialsMixed(store) ==
    [email |-> IF store = "linkedout" THEN "L_ON_CHANNEL_EMAIL" ELSE "R_ON_CHANNEL_EMAIL",
     password |-> IF store = "linkedout" THEN "R_ON_CHANNEL_PASSWORD"
                  ELSE "L_ON_CHANNEL_PASSWORD"]

\* PlaywrightManager, the brand-aware variant: the pair of the store
ManagerOnchCredentials(store) ==
    [email |-> IF store = "linkedout" THEN "L_ON_CHANNEL_EMAIL" ELSE "R_ON_CHANNEL_EMAIL",
     password |-> IF store = "linkedout" THEN "L_ON_CHANNEL_PASSWORD"
                  ELSE "R_ON_CHANNEL_PASSWORD"]

\* PlaywrightManager.loginToOnchSite: the same login with the pair of the
\* store, and no wait after the click
managerLoginToOnchSite(st, t) ==
    LET f == Top(st, t) IN
    CASE f.pc \in {"goto", "navigated", "email", "password"} ->
            OnchForm(st, t, ManagerOnchCredentials(f.store))
      [] f.pc = "clicked" ->
            IF st.pages[f.obj].open THEN Return(st, t, f.obj) ELSE Throw(st, t)
      [] OTHER -> ObtainLoginPage(st, t)

\* a faulty variant of IsLoginPage: the login form is always taken to be there
IsLoginPageAlways(f) == TRUE

\* lines 464-466: whether the document has an element .cp-loginpage__bg;
\* the frame carries what the site shows to this call
IsLoginPage(f) == f.form

\* lines 455-486: the navigation, the detector and the form
loginToCoupangSite(st, t) ==
    LET f == Top(st, t) IN
    CASE f.pc = "goto" -> PageStep(st, t, f, "goto", "navigated")
      [] f.pc = "navigated" -> PageStep(st, t, f, "evaluate", "evaluated")
      [] f.pc = "evaluated" ->
            IF ~st.pages[f.obj].open THEN Throw(st, t)
            ELSE IF ~IsLoginPage(f) THEN Return(st, t, f.obj)
            ELSE PageStep(st, t, f, "fill #username", "username")
      [] f.pc = "username" -> PageStep(st, t, f, "fill #password", "password")
      [] f.pc = "password" -> PageStep(st, t, f, "press Enter", "pressed")
      [] f.pc = "pressed" -> PageStep(st, t, f, "waitForLoadState", "loaded")
      [] f.pc = "loaded" ->
            IF st.pages[f.obj].open THEN Return(st, t, f.obj) ELSE Throw(st, t)
      [] OTHER -> ObtainLoginPage(st, t)

createParallelPages(st, t) ==
    LET f == Top(st, t) IN
    CASE f.pc = "start" ->
            Goto(st, t, [f EXCEPT !.cid = ParallelContextId(f.store, f.cron),
                                  !.cur = 0, !.acc = <<>>], "loop")
      [] f.pc = "loop" ->
            IF f.cur < f.n
            THEN LET pageId == ParallelPageId(f.store, f.cron, f.cur) IN
                 Call(st, t, [f EXCEPT !.pid = pageId], "gotPage",
                      [Frame("getPage") EXCEPT !.pid = pageId])
            ELSE Settle(st, t, TRUE, 0, f.acc)
      [] f.pc = "gotPage" ->
            LET existingPage == st.tasks[t].rv IN
            IF /\ existingPage # 0
               /\ MapHas(st.pagePool, f.pid)
               /\ MapGet(st.pagePool, f.pid).contextId = f.cid
            THEN Goto(st, t, [f EXCEPT !.acc = Append(@, existingPage),
                                       !.cur = @ + 1], "loop")
            ELSE Call(st, t, f, "created",
                      [Frame("createPage") EXCEPT !.cid = f.cid, !.pid = f.pid])
      [] f.pc = "created" ->
            Goto(st, t, [f EXCEPT !.acc = Append(@, st.tasks[t].rv),
                                  !.cur = @ + 1], "loop")

\* one stretch of the frame on top of task t
Seg(st, t) ==
    LET fn == Top(st, t).fn IN
    CASE fn = "initializeBrowser" -> initializeBrowser(st, t)
      [] fn = "init" -> init(st, t)
      [] fn = "getOrCreateContext" -> getOrCreateContext(st, t)
      [] fn = "createPage" -> createPage(st, t)
      [] fn = "getPage" -> getPage(st, t)
      [] fn = "releasePage" -> releasePage(st, t)
      [] fn = "releaseContext" -> releaseContext(st, t)
      [] fn = "closeAll" -> closeAll(st, t)
      [] fn = "loginToOnchSite" -> loginToOnchSite(st, t)
      [] fn = "managerLoginToOnchSite" -> managerLoginToOnchSite(st, t)
      [] fn = "loginToCoupangSite" -> loginToCoupangSite(st, t)
      [] fn = "createParallelPages" -> createParallelPages(st, t)

\* task t runs until it suspends or its call settles
RECURSIVE Run(_, _)
Run(st, t) ==
    LET s == Seg(st, t) IN
    IF s.go = "run" THEN Run(s, t) ELSE s

\* task t runs alone until its call settles: every await resolves in turn
RECURSIVE RunToEnd(_, _)
RunToEnd(st, t) ==
    LET s == Run(st, t) IN
    IF s.tasks[t].stack = <<>> \/ s.go = "full" THEN s ELSE RunToEnd(s, t)


----------------------------------------------------------------------------
(* The callers of the manager *)

World ==
    [browsers |-> browsers, contexts |-> contexts, pages |-> pages,
     browser |-> browser, isInitialized |-> isInitialized,
     selectedBrowserOption |-> selectedBrowserOption,
     contextPool |-> contextPool, pagePool |-> pagePool, tasks |-> tasks,
     done |-> NoCall, go |-> "run"]

\* the rows still in use: an object that is not closed, or that the manager
\* or a kept object still refers to
KeptPages(st) ==
    {p \in DOMAIN st.pages :
        /\ st.pages[p].used
        /\ \/ st.pages[p].open
           \/ \E i \in DOMAIN st.pagePool : st.pagePool[i].page = p}

KeptContexts(st) ==
    {c \in DOMAIN st.contexts :
        /\ st.contexts[c].used
        /\ \/ st.contexts[c].open
           \/ \E i \in DOMAIN st.contextPool : st.contextPool[i].context = c
           \/ \E p \in KeptPages(st) : st.pages[p].context = c}

KeptBrowsers(st) ==
    {b \in DOMAIN st.browsers :
        /\ st.browsers[b].used
        /\ \/ st.browsers[b].state # "closed"
           \/ st.browser = b
           \/ \E c \in KeptContexts(st) : st.contexts[c].browser = b}

RECURSIVE Ascending(_)
Ascending(S) ==
    IF S = {} THEN <<>>
    ELSE LET m == CHOOSE x \in S : \A y \in S : x <= y IN
         <<m>> \o Ascending(S \ {m})

\* the rows in use, those the manager refers to first, in the order of its
\* references
BrowserOrder(st) ==
    (IF st.browser # 0 THEN <<st.browser>> ELSE <<>>)
    \o Ascending(KeptBrowsers(st) \ {st.browser})

ContextOrder(st) ==
    [i \in DOMAIN st.contextPool |-> st.contextPool[i].context]
    \o Ascending(KeptContexts(st)
                 \ {st.contextPool[i].context : i \in DOMAIN st.contextPool})

PageOrder(st) ==
    [i \in DOMAIN st.pagePool |-> st.pagePool[i].page]
    \o Ascending(KeptPages(st) \ {st.pagePool[i].page : i \in DOMAIN st.pagePool})

\* the place of row x in order (0 stays 0)
Place(order, x) ==
    IF x = 0 THEN 0 ELSE CHOOSE i \in DOMAIN order : order[i] = x

\* With one caller, between two calls: the rows of closed objects nothing
\* refers to are freed and the rows in use are renumbered in the order above.
\* Row numbers are only names, so the state stands for the same objects.
Collect(st) ==
    IF Len(st.tasks) # 1 THEN st
    ELSE LET bo == BrowserOrder(st)
             co == ContextOrder(st)
             po == PageOrder(st) IN
         [st EXCEPT
            !.browsers = [i \in DOMAIN st.browsers |->
                IF i <= Len(bo) THEN st.browsers[bo[i]] ELSE FreeBrowser],
            !.browser = Place(bo, st.browser),
            !.contexts = [i \in DOMAIN st.contexts |->
                IF i <= Len(co)
                THEN [st.contexts[co[i]] EXCEPT !.browser = Place(bo, @)]
                ELSE FreeContext],
            !.contextPool = [i \in DOMAIN st.contextPool |->
                [st.contextPool[i] EXCEPT !.context = Place(co, @)]],
            !.pages = [i \in DOMAIN st.pages |->
                IF i <= Len(po)
                THEN [st.pages[po[i]] EXCEPT !.context = Place(co, @)]
                ELSE FreePage],
            !.pagePool = [i \in DOMAIN st.pagePool |->
                [st.pagePool[i] EXCEPT !.page = Place(po, @)]]]

Commit(s0) ==
    \E st \in {Collect(s0)} :
        /\ browsers' = st.browsers
        /\ contexts' = st.contexts
        /\ pages' = st.pages
        /\ browser' = st.browser
        /\ isInitialized' = st.isInitialized
        /\ selectedBrowserOption' = st.selectedBrowserOption
        /\ contextPool' = st.contextPool
        /\ pagePool' = st.pagePool
        /\ tasks' = st.tasks
        /\ UNCHANGED <<bvars, xvars>>

Tasks == DOMAIN tasks

Idle(t) == tasks[t].stack = <<>>

\* the state st in which task t has entered the method of frame
EnteredFrom(st, t, frame) ==
    [st EXCEPT !.tasks[t] = [IdleTask EXCEPT !.stack = <<frame>>, !.top = frame],
               !.done = NoCall, !.go = "run"]

\* the state after task t, alone, has called the method of frame in state st
\* and the call has settled; its field done tells what the call returned
AfterFrom(st, t, frame) == RunToEnd(EnteredFrom(st, t, frame), t)

Entered(t, frame) == EnteredFrom(World, t, frame)

After(t, frame) == AfterFrom(World, t, frame)

\* a step that reaches a state is taken unless it found the tables full
Taken(s0) == \E st \in {s0} : st.go # "full" /\ Commit(st)

\* concurrent callers begin MaxCalls calls at most
MayCall == Len(tasks) = 1 \/ quota > 0

Spend == quota' = IF Len(tasks) = 1 THEN quota ELSE quota - 1

\* task t calls a method of the manager
Begin(t, frame) ==
    /\ Idle(t)
    /\ MayCall
    /\ Taken(IF Len(tasks) = 1 THEN After(t, frame) ELSE Run(Entered(t, frame), t))
    /\ Spend

\* the ids the callers use: all of them with one caller, one session and one
\* page with concurrent callers
CallerContextIds == IF Len(tasks) = 1 THEN ContextIds ELSE ConcContextIds

CallerPageIds == IF Len(tasks) = 1 THEN PageIds ELSE ConcPageIds

CallerStores == IF Len(tasks) = 1 THEN LoginStores ELSE Stores

\* what the Coupang site shows to a login: the form or not with one caller,
\* the form (the longer path) with concurrent callers
CallerForms == IF Len(tasks) = 1 THEN BOOLEAN ELSE {TRUE}

\* the engine of a login: any with one caller, the default of the parameter
\* with concurrent callers
CallerEngines == IF Len(tasks) = 1 THEN Engines ELSE {"chromium"}

CallSetConfig(t) ==
    \E o \in Engines :
        /\ Idle(t)
        /\ MayCall
        /\ Commit(setConfig(World, o))
        /\ Spend

CallInitializeBrowser(t) == Begin(t, Frame("initializeBrowser"))

CallInit(t) ==
    \E o \in Engines : Begin(t, [Frame("init") EXCEPT !.opt = o])

CallGetOrCreateContext(t) ==
    \E c \in CallerContextIds :
        Begin(t, [Frame("getOrCreateContext") EXCEPT !.cid = c])

CallCreatePage(t) ==
    \E c \in CallerContextIds, p \in CallerPageIds :
        Begin(t, [Frame("createPage") EXCEPT !.cid = c, !.pid = p])

CallGetPage(t) ==
    \E p \in CallerPageIds : Begin(t, [Frame("getPage") EXCEPT !.pid = p])

CallReleasePage(t) ==
    \E p \in CallerPageIds, fails \in BOOLEAN :
        Begin(t, [Frame("releasePage") EXCEPT !.pid = p, !.fails = fails])

CallReleaseContext(t) ==
    \E c \in CallerContextIds : Begin(t, [Frame("releaseContext") EXCEPT !.cid = c])

CallCloseAll(t) == Begin(t, Frame("closeAll"))

CallLoginToOnchSite(t) ==
    \E s \in CallerStores, c \in CallerContextIds, p \in CallerPageIds, o \in CallerEngines :
        Begin(t, [Frame("loginToOnchSite") EXCEPT
                     !.store = s, !.cid = c, !.pid = p, !.opt = o])

\* the login of the brand-aware variant
CallManagerLoginToOnchSite(t) ==
    \E s \in CallerStores, c \in CallerContextIds, p \in CallerPageIds, o \in Engines :
        Begin(t, [Frame("managerLoginToOnchSite") EXCEPT
                     !.store = s, !.cid = c, !.pid = p, !.opt = o])

CallLoginToCoupangSite(t) ==
    \E c \in CallerContextIds, p \in CallerPageIds, o \in CallerEngines,
       form \in CallerForms :
        Begin(t, [Frame("loginToCoupangSite") EXCEPT
                     !.cid = c, !.pid = p, !.opt = o, !.form = form])

CallCreateParallelPages(t) ==
    \E s \in Stores, c \in CronIds, n \in 0..MaxParallel :
        Begin(t, [Frame("createParallelPages") EXCEPT
                     !.store = s, !.cron = c, !.n = n])

\* what task t awaits has settled: t runs on to its next await
Resume(t) ==
    /\ ~Idle(t)
    /\ Taken(Run(World, t))
    /\ UNCHANGED quota

\* a caller that was handed a page closes it itself (Page.close())
PageClosedByHolder ==
    \E p \in DOMAIN pages :
        /\ pages[p].open
        /\ Commit(ClosePage(World, p))
        /\ UNCHANGED quota

MInit(nBrowsers, nContexts, nPages, nTasks, nCalls) ==
    /\ browsers = [i \in 1..nBrowsers |-> FreeBrowser]
    /\ contexts = [i \in 1..nContexts |-> FreeContext]
    /\ pages = [i \in 1..nPages |-> FreePage]
    /\ browser = 0
    /\ isInitialized = FALSE
    /\ selectedBrowserOption = "chromium"
    /\ contextPool = <<>>
    /\ pagePool = <<>>
    /\ tasks = [t \in 1..nTasks |-> IdleTask]
    /\ quota = nCalls

\* no call of processItemsInParallel
NoJob ==
    /\ job = [nPages |-> 0, nItems |-> 0, batchSize |-> 1,
              onBatchComplete |-> FALSE, onProgress |-> FALSE]
    /\ workers = <<>>
    /\ successCount = 0
    /\ failCount = 0
    /\ allResults = <<>>
    /\ outcome = [state |-> "none"]
    /\ attempts = <<>>
    /\ settled = <<>>
    /\ batches = <<>>
    /\ progress = <<>>
    /\ cbThrew = FALSE

\* a caller of the messaging service between two calls
IdleCaller ==
    [op |-> "none", queue |-> "", pc |-> "idle", client |-> 0, found |-> FALSE,
     connected |-> FALSE, reconnects |-> 0, connect |-> "none", raised |-> "",
     replied |-> "",
     result |-> [state |-> "none"]]

\* onApplicationShutdown not called
IdleShutdown ==
    [pc |-> "idle", cur |-> 0, cached |-> {}, closed |-> <<>>, failed |-> {},
     threw |-> FALSE]

\* no call of splitIntoChunks
NoSplit == split = [items |-> <<>>, chunkCount |-> 1, state |-> "none", chunks |-> <<>>]

\* the messaging service with nCalls calls of emit and send to come
MqInit(nCalls) ==
    /\ clients = <<>>
    /\ clientCount = 0
    /\ callers = [t \in MqCallers |-> IdleCaller]
    /\ mqQuota = nCalls
    /\ shutdown = IdleShutdown
    /\ constructed = [q \in MqQueues |-> 0]

NoMessaging == MqInit(0)

Init ==
    MInit(SeqBrowsers, SeqContexts, SeqPages, 1, 0) /\ NoJob /\ NoSplit /\ NoMessaging

InitConc ==
    /\ MInit(ConcBrowsers, ConcContexts, ConcPages, 2, MaxCalls)
    /\ NoJob /\ NoSplit /\ NoMessaging

\* one caller: a call runs to its end before the next one begins
Next ==
    \/ \E t \in Tasks : CallSetConfig(t)
    \/ \E t \in Tasks : CallInitializeBrowser(t)
    \/ \E t \in Tasks : CallInit(t)
    \/ \E t \in Tasks : CallGetOrCreateContext(t)
    \/ \E t \in Tasks : CallCreatePage(t)
    \/ \E t \in Tasks : CallGetPage(t)
    \/ \E t \in Tasks : CallReleasePage(t)
    \/ \E t \in Tasks : CallReleaseContext(t)
    \/ \E t \in Tasks : CallCloseAll(t)
    \/ \E t \in Tasks : CallLoginToOnchSite(t)
    \/ \E t \in Tasks : CallManagerLoginToOnchSite(t)
    \/ \E t \in Tasks : CallLoginToCoupangSite(t)
    \/ \E t \in Tasks : CallCreateParallelPages(t)
    \/ PageClosedByHolder

\* two callers: a call runs to its first await, and is resumed await by await
NextConc ==
    \/ \E t \in Tasks : CallInitializeBrowser(t)
    \/ \E t \in Tasks : CallInit(t)
    \/ \E t \in Tasks : CallGetOrCreateContext(t)
    \/ \E t \in Tasks : CallCreatePage(t)
    \/ \E t \in Tasks : CallLoginToOnchSite(t)
    \/ \E t \in Tasks : CallLoginToCoupangSite(t)
    \/ \E t \in Tasks : Resume(t)

\* the manager with one caller: its methods run one at a time
Spec == Init /\ [][Next]_vars

\* the manager with two callers, interleaved at every await
SpecConc == InitConc /\ [][NextConc]_vars

----------------------------------------------------------------------------
(* processItemsInParallel and splitIntoChunks                               *)
(*                                                                          *)
(* The items are 1..nItems and processItemFn, when it fulfils, yields the   *)
(* item itself; the pages are 1..nPages and 0 stands for undefined.  Each   *)
(* closure of chunks.map is a worker; a step runs a worker from the         *)
(* settling of what it awaits to its next await.                            *)

\* a faulty variant of Ceil: the quotient rounded down, plus one
FloorPlusOne(a, b) == (a \div b) + 1

Ceil(a, b) == (a + b - 1) \div b

\* the loop of lines 567-569
RECURSIVE Slices(_, _, _)
Slices(items, i, chunkSize) ==
    IF i < Len(items)
    THEN <<SubSeq(items, i + 1, IF i + chunkSize < Len(items)
                                THEN i + chunkSize ELSE Len(items))>>
         \o Slices(items, i + chunkSize, chunkSize)
    ELSE <<>>

\* Math.ceil(items.length / chunkCount) is Infinity for chunkCount = 0 and a
\* list that is not empty (one slice takes the whole list, as a slice of
\* items.length does) and NaN for an empty list (the loop does not run)
splitIntoChunks(items, chunkCount) ==
    IF Len(items) = 0 THEN <<>>
    ELSE Slices(items, 0, IF chunkCount = 0 THEN Len(items)
                          ELSE Ceil(Len(items), chunkCount))

Items == [i \in 1..job.nItems |-> i]

chunks == splitIntoChunks(Items, job.nPages)

Batch ==
    [workers |-> workers, successCount |-> successCount, failCount |-> failCount,
     allResults |-> allResults, attempts |-> attempts, settled |-> settled,
     batches |-> batches, progress |-> progress, cbThrew |-> cbThrew]

\* onProgress(successCount + failCount, totalItems), which throws or not
InvokeOnProgress(b, throws) ==
    IF job.onProgress
    THEN [b EXCEPT !.progress = Append(@, [completed |-> b.successCount + b.failCount,
                                           total |-> Len(Items)]),
                   !.cbThrew = @ \/ throws]
    ELSE b

\* onBatchComplete([...localBatch]) is called by worker k
InvokeOnBatchComplete(b, k, pc) ==
    [b EXCEPT !.workers[k].pc = pc,
              !.batches[k] = Append(@, b.workers[k].localBatch)]

\* a faulty variant of NextItem: the loop steps over every other item
NextItemSkips(b, k) ==
    LET w == b.workers[k] IN
    IF w.i + 1 < Len(chunks[k])
    THEN [b EXCEPT !.workers[k].i = w.i + 2,
                   !.workers[k].pc = "processItemFn",
                   !.attempts[chunks[k][w.i + 2]] = @ + 1]
    ELSE [b EXCEPT !.workers[k].pc = "fulfilled"]

\* lines 606-608 and 636-638: the loop takes the next item of the chunk and
\* calls processItemFn, or ends and flushes what is left
NextItem(b, k) ==
    LET w == b.workers[k] IN
    IF w.i < Len(chunks[k])
    THEN [b EXCEPT !.workers[k].i = w.i + 1,
                   !.workers[k].pc = "processItemFn",
                   !.attempts[chunks[k][w.i + 1]] = @ + 1]
    ELSE IF Len(w.localBatch) > 0 /\ job.onBatchComplete
         THEN InvokeOnBatchComplete(b, k, "leftover")
         ELSE [b EXCEPT !.workers[k].pc = "fulfilled"]

\* lines 625-632: the catch block
Catch(b, k, throws) ==
    LET b1 == InvokeOnProgress([b EXCEPT !.failCount = @ + 1], throws) IN
    IF job.onProgress /\ throws
    THEN [b1 EXCEPT !.workers[k].pc = "rejected"]
    ELSE NextItem(b1, k)

\* a faulty variant of Counted: the success is counted twice
CountedTwice(b, k, throws, throwsAgain) ==
    NextItem([b EXCEPT !.successCount = @ + 2], k)

\* lines 620-624: the success is counted and reported
Counted(b, k, throws, throwsAgain) ==
    LET b1 == InvokeOnProgress([b EXCEPT !.successCount = @ + 1], throws) IN
    IF job.onProgress /\ throws
    THEN Catch(b1, k, throwsAgain)
    ELSE NextItem(b1, k)

\* lines 610-618: processItemFn has fulfilled
Processed(b, k, throws, throwsAgain) ==
    LET item == chunks[k][b.workers[k].i]
        b1 == [b EXCEPT !.workers[k].localBatch = Append(@, item),
                        !.allResults = Append(@, item),
                        !.settled[item] = "fulfilled"] IN
    IF Len(b1.workers[k].localBatch) >= job.batchSize /\ job.onBatchComplete
    THEN InvokeOnBatchComplete(b1, k, "onBatchComplete")
    ELSE Counted(b1, k, throws, throwsAgain)

\* lines 602-604: every closure runs to its first await
RECURSIVE StartFrom(_, _)
StartFrom(b, k) ==
    IF k > Len(chunks) THEN b ELSE StartFrom(NextItem(b, k), k + 1)

CommitBatch(b) ==
    /\ workers' = b.workers
    /\ successCount' = b.successCount
    /\ failCount' = b.failCount
    /\ allResults' = b.allResults
    /\ attempts' = b.attempts
    /\ settled' = b.settled
    /\ batches' = b.batches
    /\ progress' = b.progress
    /\ cbThrew' = b.cbThrew
    /\ UNCHANGED <<job, mvars, xvars>>

\* what a call of onProgress may do
Throws == IF job.onProgress THEN BOOLEAN ELSE {FALSE}

Workers == DOMAIN workers

\* lines 594-604
CallProcessItemsInParallel ==
    /\ outcome.state = "none"
    /\ outcome' = [state |-> "pending"]
    /\ CommitBatch(StartFrom(
          [Batch EXCEPT
              !.workers = [k \in DOMAIN chunks |->
                  [pc |-> "start", i |-> 0, localBatch |-> <<>>,
                   page |-> IF k <= job.nPages THEN k ELSE 0]],
              !.batches = [k \in DOMAIN chunks |-> <<>>]], 1))

ProcessItemFulfils(k) ==
    /\ workers[k].pc = "processItemFn"
    /\ \E throws \in Throws, throwsAgain \in Throws :
          CommitBatch(Processed(Batch, k, throws, throwsAgain))
    /\ UNCHANGED outcome

ProcessItemRejects(k) ==
    /\ workers[k].pc = "processItemFn"
    /\ \E throws \in Throws :
          CommitBatch(Catch([Batch EXCEPT !.settled[chunks[k][workers[k].i]] = "rejected"],
                            k, throws))
    /\ UNCHANGED outcome

\* lines 616-617 and the end of the closure
OnBatchCompleteFulfils(k) ==
    /\ \/ /\ workers[k].pc = "onBatchComplete"
          /\ \E throws \in Throws, throwsAgain \in Throws :
                CommitBatch(Counted([Batch EXCEPT !.workers[k].localBatch = <<>>],
                                    k, throws, throwsAgain))
       \/ /\ workers[k].pc = "leftover"
          /\ CommitBatch([Batch EXCEPT !.workers[k].pc = "fulfilled"])
    /\ UNCHANGED outcome

\* a rejection inside the try block goes to the catch block, the rejection
\* of the last flush leaves the closure
OnBatchCompleteRejects(k) ==
    /\ \/ /\ workers[k].pc = "onBatchComplete"
          /\ \E throws \in Throws :
                CommitBatch(Catch([Batch EXCEPT !.cbThrew = TRUE], k, throws))
       \/ /\ workers[k].pc = "leftover"
          /\ CommitBatch([Batch EXCEPT !.cbThrew = TRUE, !.workers[k].pc = "rejected"])
    /\ UNCHANGED outcome

\* lines 602 and 641: Promise.all rejects with the first closure that
\* rejects and fulfils when all have fulfilled
Settles ==
    /\ outcome.state = "pending"
    /\ \/ /\ \E k \in Workers : workers[k].pc = "rejected"
          /\ outcome' = [state |-> "rejected"]
       \/ /\ \A k \in Workers : workers[k].pc = "fulfilled"
          /\ outcome' = [state |-> "returned", successCount |-> successCount,
                         failCount |-> failCount, results |-> allResults]
    /\ UNCHANGED <<job, workers, successCount, failCount, allResults, attempts,
                   settled, batches, progress, cbThrew, mvars, xvars>>

InitBatch ==
    /\ MInit(0, 0, 0, 1, 0)
    /\ job \in [nPages : 0..MaxGivenPages, nItems : 0..MaxItems,
                batchSize : 1..MaxBatchSize,
                onBatchComplete : BOOLEAN, onProgress : BOOLEAN]
    /\ workers = <<>>
    /\ successCount = 0
    /\ failCount = 0
    /\ allResults = <<>>
    /\ outcome = [state |-> "none"]
    /\ attempts = [i \in 1..job.nItems |-> 0]
    /\ settled = [i \in 1..job.nItems |-> "none"]
    /\ batches = <<>>
    /\ progress = <<>>
    /\ cbThrew = FALSE
    /\ NoSplit
    /\ NoMessaging

NextBatch ==
    \/ CallProcessItemsInParallel
    \/ \E k \in Workers : ProcessItemFulfils(k)
    \/ \E k \in Workers : ProcessItemRejects(k)
    \/ \E k \in Workers : OnBatchCompleteFulfils(k)
    \/ \E k \in Workers : OnBatchCompleteRejects(k)
    \/ Settles

\* one call of processItemsInParallel
SpecBatch == InitBatch /\ [][NextBatch]_vars

\* the same, where what is awaited settles and the event loop goes on
SpecBatchFair == SpecBatch /\ WF_vars(NextBatch)

----------------------------------------------------------------------------
(* splitIntoChunks called on its own *)

\* the lists handed to splitIntoChunks
SplitLists == UNION {[1..n -> SplitValues] : n \in 0..MaxSplitLen}

\* lines 563-572
CallSplitIntoChunks ==
    /\ split.state = "none"
    /\ split' = [split EXCEPT !.state = "returned",
                              !.chunks = splitIntoChunks(split.items, split.chunkCount)]
    /\ UNCHANGED <<mvars, bvars, qvars>>

InitSplit ==
    /\ MInit(0, 0, 0, 1, 0)
    /\ NoJob
    /\ NoMessaging
    /\ split \in [items : SplitLists, chunkCount : 0..MaxChunkCount,
                  state : {"none"}, chunks : {<<>>}]

NextSplit == CallSplitIntoChunks

\* one call of splitIntoChunks
SpecSplit == InitSplit /\ [][NextSplit]_vars

----------------------------------------------------------------------------
(* RabbitMQService                                                          *)
(*                                                                          *)
(* A client is the number it was constructed with, so two clients are never *)
(* confused.  getOrCreateClient suspends only for the reconnect; emit and   *)
(* send suspend once more for the dispatch; onApplicationShutdown suspends  *)
(* for every close.  The hook runs when the process ends: no emit or send   *)
(* is in flight then, and none begins before the hook has returned.  None   *)
(* of the written operations clears the connected flag of a cached client   *)
(* (SpecMqOps); SpecMq adds the step the reconnect is written for, in which *)
(* the flag is cleared when the connection is observed lost.                *)

\* the call of caller t has returned v
MqReturn(cs, t, v) ==
    [cs EXCEPT ![t].pc = "done", ![t].result = [state |-> "returned", value |-> v]]

\* a faulty variant of Rethrow: a new error is thrown in place of the caught one
RethrowWrapped(err) == "wrapped"

\* the catch block of emit and send: the error is logged and thrown again
Rethrow(err) == err

\* an error was raised inside the try block of the call of caller t
MqThrow(cs, t, err) ==
    [cs EXCEPT ![t].pc = "done", ![t].raised = err,
               ![t].result = [state |-> "threw", error |-> Rethrow(err)]]

\* the dispatch: client.emit or client.send with {pattern, payload} is awaited
Dispatch(cs, t, c) == [cs EXCEPT ![t].pc = "dispatch", ![t].client = c]

\* a faulty variant of HasClient: the cached client is never found
HasClientNever(q) == FALSE

\* a client exists for queue q
HasClient(q) == MapHas(clients, q)

\* the entry of queue q, read by caller t
Lookup(t, op, q) ==
    [IdleCaller EXCEPT !.op = op, !.queue = q, !.found = HasClient(q),
                       !.connected = HasClient(q) /\ MapGet(clients, q).connected]

\* getOrCreateClient finds the client of the queue: a client marked
\* disconnected is reconnected first, and returned whatever comes of it
Cached(t, op, q) ==
    /\ HasClient(q)
    /\ callers' = IF MapGet(clients, q).connected
                  THEN Dispatch([callers EXCEPT ![t] = Lookup(t, op, q)], t,
                                MapGet(clients, q).client)
                  ELSE [callers EXCEPT ![t] = [Lookup(t, op, q) EXCEPT
                                                  !.pc = "reconnect",
                                                  !.client = MapGet(clients, q).client,
                                                  !.reconnects = 1]]
    /\ UNCHANGED <<clients, clientCount, constructed>>

\* getOrCreateClient finds no client: one is constructed and cached as
\* connected, or the construction throws
Constructed(t, op, q) ==
    /\ ~HasClient(q)
    /\ clientCount < MaxMqClients
    /\ \/ /\ clientCount' = clientCount + 1
          /\ clients' = MapSet(clients, [id |-> q, client |-> clientCount + 1,
                                         connected |-> TRUE])
          /\ constructed' = [constructed EXCEPT ![q] = @ + 1]
          /\ callers' = Dispatch([callers EXCEPT ![t] = Lookup(t, op, q)], t,
                                 clientCount + 1)
       \/ /\ \E err \in MqErrors :
                callers' = MqThrow([callers EXCEPT ![t] = Lookup(t, op, q)], t, err)
          /\ UNCHANGED <<clients, clientCount, constructed>>

\* caller t calls emit or send on queue q
MqCall(t, op, q) ==
    /\ callers[t].pc \in {"idle", "done"}
    /\ shutdown.pc # "close"
    /\ mqQuota > 0
    /\ mqQuota' = mqQuota - 1
    /\ Cached(t, op, q) \/ Constructed(t, op, q)
    /\ UNCHANGED <<shutdown, split, mvars, bvars>>

emit(t) == \E q \in MqQueues : MqCall(t, "emit", q)

send(t) == \E q \in MqQueues : MqCall(t, "send", q)

\* reconnect: client.connect() has fulfilled, the client is marked connected
ConnectFulfils(t) ==
    /\ callers[t].pc = "reconnect"
    /\ clients' = MapSet(clients, [id |-> callers[t].queue, client |-> callers[t].client,
                                   connected |-> TRUE])
    /\ callers' = Dispatch([callers EXCEPT ![t].connect = "fulfilled"], t,
                           callers[t].client)
    /\ UNCHANGED <<clientCount, mqQuota, shutdown, constructed, split, mvars, bvars>>

\* a faulty variant of ConnectRejects: the error of the reconnect is thrown on
ConnectRejectsThrows(t) ==
    /\ callers[t].pc = "reconnect"
    /\ \E err \in MqErrors :
          callers' = MqThrow([callers EXCEPT ![t].connect = "rejected"], t, err)
    /\ UNCHANGED <<clients, clientCount, mqQuota, shutdown, constructed, split,
                   mvars, bvars>>

\* reconnect: client.connect() has rejected, the error is logged and dropped
ConnectRejects(t) ==
    /\ callers[t].pc = "reconnect"
    /\ callers' = Dispatch([callers EXCEPT ![t].connect = "rejected"], t,
                           callers[t].client)
    /\ UNCHANGED <<clients, clientCount, mqQuota, shutdown, constructed, split,
                   mvars, bvars>>

\* the dispatch has fulfilled: emit returns nothing, send the remote reply
DispatchFulfils(t) ==
    /\ callers[t].pc = "dispatch"
    /\ IF callers[t].op = "send"
       THEN \E reply \in MqReplies :
               callers' = MqReturn([callers EXCEPT ![t].replied = reply], t, reply)
       ELSE callers' = MqReturn(callers, t, "undefined")
    /\ UNCHANGED <<clients, clientCount, mqQuota, shutdown, constructed, split,
                   mvars, bvars>>

\* a faulty variant of DispatchRejects: the client is marked disconnected
DispatchRejectsMarks(t) ==
    /\ callers[t].pc = "dispatch"
    /\ \E err \in MqErrors : callers' = MqThrow(callers, t, err)
    /\ clients' = [i \in DOMAIN clients |->
                      IF clients[i].client = callers[t].client
                      THEN [clients[i] EXCEPT !.connected = FALSE] ELSE clients[i]]
    /\ UNCHANGED <<clientCount, mqQuota, shutdown, constructed, split,
                   mvars, bvars>>

\* the dispatch has rejected
DispatchRejects(t) ==
    /\ callers[t].pc = "dispatch"
    /\ \E err \in MqErrors : callers' = MqThrow(callers, t, err)
    /\ UNCHANGED <<clients, clientCount, mqQuota, shutdown, constructed, split,
                   mvars, bvars>>

\* the service observes that the client of queue q has lost its connection
ObserveDisconnected(q) ==
    /\ MapHas(clients, q)
    /\ MapGet(clients, q).connected
    /\ shutdown.pc # "close"
    /\ clients' = MapSet(clients, [MapGet(clients, q) EXCEPT !.connected = FALSE])
    /\ UNCHANGED <<clientCount, callers, mqQuota, shutdown, constructed, split,
                   mvars, bvars>>

\* the loop of onApplicationShutdown: close is called on the next cached
\* client, or the hook returns
CloseNext(sd, cached) ==
    IF cached = <<>>
    THEN [sd EXCEPT !.pc = "done", !.cur = 0]
    ELSE [sd EXCEPT !.pc = "close", !.cur = cached[1].client,
                    !.closed = Append(@, cached[1].client)]

\* the hosting process ends and calls the hook
onApplicationShutdown ==
    /\ shutdown.pc # "close"
    /\ \A t \in MqCallers : callers[t].pc \in {"idle", "done"}
    /\ shutdown' = CloseNext([IdleShutdown EXCEPT
                                 !.cached = {clients[i].client : i \in DOMAIN clients}],
                             clients)
    /\ constructed' = [q \in MqQueues |-> 0]
    /\ UNCHANGED <<clients, clientCount, callers, mqQuota, split, mvars, bvars>>

\* the client closed last is evicted, whether its close failed or not
Evicted == SelectSeq(clients, LAMBDA entry : entry.client # shutdown.cur)

\* client.close() has fulfilled
CloseFulfils ==
    /\ shutdown.pc = "close"
    /\ clients' = Evicted
    /\ shutdown' = CloseNext(shutdown, Evicted)
    /\ UNCHANGED <<clientCount, callers, mqQuota, constructed, split, mvars, bvars>>

\* a faulty variant of CloseRejects: the error of close leaves the hook
CloseRejectsThrows ==
    /\ shutdown.pc = "close"
    /\ shutdown' = [shutdown EXCEPT !.pc = "done", !.cur = 0, !.threw = TRUE,
                                    !.failed = @ \cup {shutdown.cur}]
    /\ UNCHANGED <<clients, clientCount, callers, mqQuota, constructed, split,
                   mvars, bvars>>

\* client.close() has raised an error, which is logged
CloseRejects ==
    /\ shutdown.pc = "close"
    /\ clients' = Evicted
    /\ shutdown' = CloseNext([shutdown EXCEPT !.failed = @ \cup {shutdown.cur}], Evicted)
    /\ UNCHANGED <<clientCount, callers, mqQuota, constructed, split, mvars, bvars>>

InitMq ==
    /\ MInit(0, 0, 0, 1, 0)
    /\ NoJob
    /\ NoSplit
    /\ MqInit(MaxMqCalls)

NextMq ==
    \/ \E t \in MqCallers : emit(t)
    \/ \E t \in MqCallers : send(t)
    \/ \E t \in MqCallers : ConnectFulfils(t)
    \/ \E t \in MqCallers : ConnectRejects(t)
    \/ \E t \in MqCallers : DispatchFulfils(t)
    \/ \E t \in MqCallers : DispatchRejects(t)
    \/ \E q \in MqQueues : ObserveDisconnected(q)
    \/ onApplicationShutdown
    \/ CloseFulfils
    \/ CloseRejects

\* the messaging service with two callers
SpecMq == InitMq /\ [][NextMq]_vars

\* the operations of the service alone
NextMqOps ==
    \/ \E t \in MqCallers : emit(t)
    \/ \E t \in MqCallers : send(t)
    \/ \E t \in MqCallers : DispatchFulfils(t)
    \/ \E t \in MqCallers : DispatchRejects(t)
    \/ onApplicationShutdown
    \/ CloseFulfils
    \/ CloseRejects

\* the messaging service with two callers and nothing but its operations
SpecMqOps == InitMq /\ [][NextMqOps]_vars

----------------------------------------------------------------------------
(* The calls the one caller can make, as frames *)

Goc(c) == [Frame("getOrCreateContext") EXCEPT !.cid = c]

CreatePageOf(c, p) == [Frame("createPage") EXCEPT !.cid = c, !.pid = p]

OnchOf(s, c, p, o) ==
    [Frame("loginToOnchSite") EXCEPT !.store = s, !.cid = c, !.pid = p, !.opt = o]

CoupangOf(c, p, o) ==
    [Frame("loginToCoupangSite") EXCEPT !.cid = c, !.pid = p, !.opt = o]

ParallelOf(s, c, n) ==
    [Frame("createParallelPages") EXCEPT !.store = s, !.cron = c, !.n = n]

CallFrames ==
    {Frame("initializeBrowser"), Frame("closeAll")}
    \cup {[Frame("init") EXCEPT !.opt = o] : o \in Engines}
    \cup {Goc(c) : c \in ContextIds}
    \cup {CreatePageOf(c, p) : c \in ContextIds, p \in PageIds}
    \cup {[Frame("getPage") EXCEPT !.pid = p] : p \in PageIds}
    \cup {[Frame("releasePage") EXCEPT !.pid = p] : p \in PageIds}
    \cup {[Frame("releaseContext") EXCEPT !.cid = c] : c \in ContextIds}
    \cup {OnchOf(s, c, p, o) : s \in Stores, c \in ContextIds, p \in PageIds,
                               o \in Engines}
    \cup {CoupangOf(c, p, o) : c \in ContextIds, p \in PageIds, o \in Engines}
    \cup {ParallelOf(s, c, n) : s \in Stores, c \in CronIds, n \in 0..MaxParallel}

\* the launches and the teardowns of a settled call
Launches(r) == Cardinality({i \in DOMAIN r.done.events : r.done.events[i] = "launch"})

Teardowns(r) ==
    Cardinality({i \in DOMAIN r.done.events : r.done.events[i] = "teardown"})

----------------------------------------------------------------------------
(* Session reuse *)

\* the call of frame neither releases session s nor tears the browser down
KeepsSession(frame, r, s) ==
    /\ frame.fn # "closeAll"
    /\ ~(frame.fn = "releaseContext" /\ frame.cid = s)
    /\ Teardowns(r) = 0

\* C1: with one caller, getOrCreateContext(s) returns the session the pool
\* holds for s (pooling the one it creates when there is none), a pooled
\* session is returned without creating a session, and no call other than
\* releaseContext(s), closeAll or an engine switch changes the session pooled
\* for s: two calls for s with none of these between them return the same
\* session object and the second creates none.
C1_SessionReuse ==
    \A s \in ContextIds :
        LET r1 == After(1, Goc(s)) IN
        /\ (r1.go # "full" /\ r1.done.ok) =>
                /\ MapHas(r1.contextPool, s)
                /\ MapGet(r1.contextPool, s).context = r1.done.rv
        /\ MapHas(contextPool, s) =>
                /\ r1.go # "full" /\ r1.done.ok
                /\ r1.done.rv = MapGet(contextPool, s).context
                /\ r1.contexts = contexts
                /\ r1.contextPool = contextPool
                /\ Launches(r1) = 0
                /\ \A frame \in CallFrames :
                      LET r == After(1, frame) IN
                      (r.go # "full" /\ KeepsSession(frame, r, s)) =>
                          /\ MapHas(r.contextPool, s)
                          /\ MapGet(r.contextPool, s).context
                                = MapGet(contextPool, s).context

\* a session is pooled, pages have been created since, and asking for the
\* session again returns the pooled object
C1_Witness ==
    /\ MapHas(contextPool, "s2")
    /\ Len(pagePool) = 2
    /\ After(1, Goc("s2")).done.rv = MapGet(contextPool, "s2").context

----------------------------------------------------------------------------
(* Pages handed to the callers *)

\* the calls that obtain a page for a page id
PageFrames ==
    {OnchOf(s, c, p, o) : s \in Stores, c \in ContextIds, p \in PageIds, o \in Engines}
    \cup {CoupangOf(c, p, o) : c \in ContextIds, p \in PageIds, o \in Engines}
    \cup {ParallelOf(s, c, n) : s \in Stores, c \in CronIds, n \in 0..MaxParallel}

\* the pages a settled call handed back
Handed(r) ==
    IF r.done.op = "createParallelPages"
    THEN {r.done.rvs[i] : i \in DOMAIN r.done.rvs}
    ELSE {r.done.rv}

\* C2: createParallelPages, loginToOnchSite and loginToCoupangSite never hand
\* back a closed page: every page of a fulfilled call is open and is the pool
\* entry of its id.
C2_NeverClosedPage ==
    \A frame \in PageFrames :
        LET r == After(1, frame) IN
        (r.go # "full" /\ r.done.ok) =>
            \A p \in Handed(r) :
                /\ r.pages[p].open
                /\ MapHas(r.pagePool, r.pages[p].id)
                /\ MapGet(r.pagePool, r.pages[p].id).page = p

\* the page pooled for the first parallel page id has been closed by its
\* holder, and createParallelPages hands that closed page back
C2_ClosedPageHanded ==
    LET id == ParallelPageId("A", "1", 0)
        r == After(1, ParallelOf("A", "1", 1)) IN
    /\ MapHas(pagePool, id)
    /\ ~pages[MapGet(pagePool, id).page].open
    /\ r.go # "full" /\ r.done.ok
    /\ r.done.rvs = <<MapGet(pagePool, id).page>>
    /\ ~r.pages[r.done.rvs[1]].open

----------------------------------------------------------------------------
(* Engine switch *)

\* the teardowns and the launches of a settled call, in order
Lifecycle(r) == SelectSeq(r.done.events, LAMBDA ev : ev \in {"teardown", "launch"})

\* the state r after a call that switched from the state of World to engine
\* b: one teardown, then one launch; the process of before, with every
\* pooled session and page of before, is closed; the manager runs a new
\* process of engine b, is initialized, and both pools are empty
Switched(r, b) ==
    /\ r.done.ok
    /\ Lifecycle(r) = <<"teardown", "launch">>
    /\ r.browsers[browser].state = "closed"
    /\ \A i \in DOMAIN contextPool : ~r.contexts[contextPool[i].context].open
    /\ \A i \in DOMAIN pagePool : ~r.pages[pagePool[i].page].open
    /\ r.browser # browser
    /\ r.done.rv = r.browser
    /\ r.browsers[r.browser] = [used |-> TRUE, engine |-> b, state |-> "open"]
    /\ r.isInitialized
    /\ r.selectedBrowserOption = b
    /\ r.contextPool = <<>>
    /\ r.pagePool = <<>>

\* C3: with engine A initialized, init(B) and setConfig(B) followed by
\* initializeBrowser(), for an engine B other than A, tear down once and
\* then launch once, and end initialized on engine B with both pools empty
\* and everything that was pooled closed.
C3_EngineSwitch ==
    isInitialized =>
        \A b \in Engines \ {browsers[browser].engine} :
            LET r1 == After(1, [Frame("init") EXCEPT !.opt = b])
                r2 == AfterFrom(setConfig(World, b), 1, Frame("initializeBrowser")) IN
            /\ r1.go # "full" => Switched(r1, b)
            /\ r2.go # "full" => Switched(r2, b)

\* chromium runs with two sessions and two pages pooled, and init('firefox')
\* switches
C3_Witness ==
    /\ isInitialized
    /\ browsers[browser].engine = "chromium"
    /\ Len(contextPool) = 2
    /\ Len(pagePool) = 2
    /\ LET r == After(1, [Frame("init") EXCEPT !.opt = "firefox"]) IN
       r.go # "full" /\ Switched(r, "firefox")

----------------------------------------------------------------------------
(* Concurrent callers *)

\* the processes that are launched and not closed
Running == {b \in DOMAIN browsers : browsers[b].used /\ browsers[b].state # "closed"}

\* C4: at most one launched browser process is open or being launched, and
\* a process that is open is the manager's current one.
C4_OneBrowserProcess ==
    /\ Cardinality(Running) <= 1
    /\ \A b \in Running : browsers[b].state = "open" => browser = b

\* two processes are open at once and the manager refers to one of them only
C4_TwoProcesses ==
    \E a, b \in Running :
        /\ a # b
        /\ browsers[a].state = "open"
        /\ browsers[b].state = "open"
        /\ browser = b
        /\ \A t \in Tasks : Idle(t)

\* the open sessions created for the id of the concurrent callers: a context
\* row is created only by getOrCreateContext, for the id of its frame
LiveSessions ==
    {c \in DOMAIN contexts : contexts[c].used /\ contexts[c].open}

\* C5: at most one session object is live for a session id: every open
\* session is the pool entry of its id or is still being set up by the call
\* that created it.
C5_OneLiveSession ==
    \A c \in LiveSessions :
        \/ \E i \in DOMAIN contextPool : contextPool[i].context = c
        \/ \E t \in Tasks : \E k \in DOMAIN tasks[t].stack :
              /\ tasks[t].stack[k].fn = "getOrCreateContext"
              /\ tasks[t].stack[k].obj = c

\* one process runs, every call has settled, and a session created for the
\* id is open in that process without being the pool entry of the id
C5_LeakedSession ==
    /\ Cardinality(Running) = 1
    /\ \A t \in Tasks : Idle(t)
    /\ \E c \in LiveSessions :
          /\ contexts[c].browser = browser
          /\ \A i \in DOMAIN contextPool : contextPool[i].context # c

----------------------------------------------------------------------------
(* One page object per page id *)

OpenPagesOf(st, id) ==
    {q \in DOMAIN st.pages :
        st.pages[q].used /\ st.pages[q].open /\ st.pages[q].id = id}

\* every page id has at most one open page created under it, and that page
\* is the pool entry of the id
OnePagePerId(st) ==
    \A id \in PageIds :
        /\ Cardinality(OpenPagesOf(st, id)) <= 1
        /\ \A q \in OpenPagesOf(st, id) :
              MapHas(st.pagePool, id) /\ MapGet(st.pagePool, id).page = q

\* C6: createPage keeps one open page object per page id: when every open
\* page is the pool entry of its id before createPage(s, p), the same is
\* true after it.
C6_OnePagePerId ==
    \A c \in ContextIds, p \in PageIds :
        LET r == After(1, CreatePageOf(c, p)) IN
        (r.go # "full" /\ r.done.ok /\ OnePagePerId(World)) => OnePagePerId(r)

\* every call has settled and an open page is not the pool entry of its id
C6_UntrackedPage ==
    /\ \A t \in Tasks : Idle(t)
    /\ \E q \in DOMAIN pages :
          /\ pages[q].used /\ pages[q].open
          /\ MapHas(pagePool, pages[q].id)
          /\ MapGet(pagePool, pages[q].id).page # q
          /\ pages[MapGet(pagePool, pages[q].id).page].open

----------------------------------------------------------------------------
(* Releasing a session *)

\* the entries of pagePool whose page belongs to context c, and the others
EntriesOf(c) == {i \in DOMAIN pagePool : pages[pagePool[i].page].context = c}

\* pool without the entries at the places in gone, in order
RECURSIVE Without(_, _)
Without(pool, gone) ==
    IF pool = <<>> THEN <<>>
    ELSE Without(SubSeq(pool, 1, Len(pool) - 1), gone)
         \o (IF Len(pool) \in gone THEN <<>> ELSE <<pool[Len(pool)]>>)

\* C7: releaseContext(s) closes every pooled page of session s and takes it
\* out of the page pool, closes session s and takes it out of the session
\* pool; every other pool entry keeps its place, every page of another
\* session is as open as before and is what getPage returns for its id, and
\* no other session changes.  For an id that is not pooled nothing changes.
C7_ReleaseContextFrame ==
    \A s \in ContextIds :
        LET r == After(1, [Frame("releaseContext") EXCEPT !.cid = s]) IN
        /\ r.go # "full" /\ r.done.ok
        /\ r.browsers = browsers /\ r.browser = browser
        /\ r.isInitialized = isInitialized
        /\ IF MapHas(contextPool, s)
           THEN LET c == MapGet(contextPool, s).context IN
                /\ \A i \in EntriesOf(c) : ~r.pages[pagePool[i].page].open
                /\ r.pagePool = Without(pagePool, EntriesOf(c))
                /\ ~r.contexts[c].open
                /\ r.contextPool = MapDelete(contextPool, s)
                /\ \A d \in DOMAIN contexts : d # c => r.contexts[d] = contexts[d]
                /\ \A q \in DOMAIN pages :
                      pages[q].context # c => r.pages[q] = pages[q]
                /\ \A i \in DOMAIN pagePool \ EntriesOf(c) :
                      AfterFrom(r, 1, [Frame("getPage") EXCEPT !.pid = pagePool[i].id]
                               ).done.rv = pagePool[i].page
           ELSE /\ r.pagePool = pagePool /\ r.contextPool = contextPool
                /\ r.pages = pages /\ r.contexts = contexts

\* two sessions are pooled, each with an open pooled page, and
\* releaseContext of the first leaves the page of the other pooled and open
C7_Witness ==
    /\ Len(contextPool) = 2
    /\ Len(pagePool) = 2
    /\ pages[pagePool[1].page].context = contextPool[1].context
    /\ pages[pagePool[2].page].context = contextPool[2].context
    /\ pages[pagePool[1].page].open /\ pages[pagePool[2].page].open
    /\ LET r == After(1, [Frame("releaseContext") EXCEPT !.cid = contextPool[1].id]) IN
       /\ r.pagePool = <<pagePool[2]>>
       /\ r.pages[pagePool[2].page].open
       /\ ~r.pages[pagePool[1].page].open

----------------------------------------------------------------------------
(* The counts of processItemsInParallel *)

Fulfilled == {i \in 1..job.nItems : settled[i] = "fulfilled"}

Rejected == {i \in 1..job.nItems : settled[i] = "rejected"}

\* C8: with at least one page and no callback failing, the call returns
\* successCount = the number of items whose processItemFn fulfilled,
\* failCount = the number of items whose processItemFn rejected, the two add
\* up to the number of items, and results holds exactly the outputs of the
\* fulfilled items, once each.
C8_Counts ==
    (outcome.state = "returned" /\ ~cbThrew /\ job.nPages >= 1) =>
        /\ outcome.successCount = Cardinality(Fulfilled)
        /\ outcome.failCount = Cardinality(Rejected)
        /\ outcome.successCount + outcome.failCount = job.nItems
        /\ Len(outcome.results) = outcome.successCount
        /\ {outcome.results[j] : j \in DOMAIN outcome.results} = Fulfilled

\* five items on two pages with both callbacks, three fulfilled and two
\* rejected, no callback failed, and the call has returned 3 and 2
C8_Witness ==
    /\ outcome.state = "returned"
    /\ ~cbThrew
    /\ job.nPages = 2 /\ job.nItems = 5
    /\ job.onBatchComplete /\ job.onProgress
    /\ Cardinality(Fulfilled) = 3 /\ Cardinality(Rejected) = 2
    /\ outcome.successCount = 3 /\ outcome.failCount = 2

----------------------------------------------------------------------------
(* Failures of processItemFn *)

\* C9: with at least one page, a processItemFn failure never leaves
\* processItemsInParallel and never stops the items behind it: once an item
\* has failed no chunk closure is left by an error and the call does not
\* reject; no item is attempted twice, when the call returns every item has
\* been attempted once, and (what is awaited settling) the call eventually
\* returns.
C9_ItemFailureContained ==
    /\ [](job.nPages >= 1 =>
            /\ Rejected # {} =>
                  /\ \A k \in Workers : workers[k].pc # "rejected"
                  /\ outcome.state # "rejected"
            /\ \A i \in 1..job.nItems : attempts[i] <= 1
            /\ outcome.state = "returned" => \A i \in 1..job.nItems : attempts[i] = 1)
    /\ <>(job.nPages = 0 \/ outcome.state = "returned")

\* one page, two items, no onBatchComplete: processItemFn rejected for the
\* first item, the second item was never attempted and the call rejected
C9_ItemsAbandoned ==
    /\ job.nPages = 1 /\ job.nItems = 2 /\ ~job.onBatchComplete
    /\ settled[1] = "rejected"
    /\ attempts[2] = 0
    /\ outcome.state = "rejected"

----------------------------------------------------------------------------
(* The batches handed to onBatchComplete *)

\* the outputs of chunk k so far, in processing order
RECURSIVE Successes(_, _)
Successes(k, n) ==
    IF n = 0 THEN <<>>
    ELSE Successes(k, n - 1)
         \o (IF settled[chunks[k][n]] = "fulfilled" THEN <<chunks[k][n]>> ELSE <<>>)

RECURSIVE Flat(_)
Flat(bs) == IF bs = <<>> THEN <<>> ELSE Flat(SubSeq(bs, 1, Len(bs) - 1)) \o bs[Len(bs)]

IsPrefix(a, b) == Len(a) <= Len(b) /\ a = SubSeq(b, 1, Len(a))

\* the batches of chunk k are well formed for batch size b
BatchesInOrder(k, b) ==
    LET bs == batches[k]
        good == Successes(k, workers[k].i) IN
    /\ \A j \in DOMAIN bs : Len(bs[j]) >= 1 /\ Len(bs[j]) <= b
    /\ \A j \in DOMAIN bs : j < Len(bs) => Len(bs[j]) = b
    /\ IsPrefix(Flat(bs), good)
    /\ workers[k].pc = "fulfilled" =>
          /\ Flat(bs) = good
          /\ Len(bs) = Ceil(Len(good), b)

\* C10: with onBatchComplete supplied and batch size b >= 1, the batches of
\* a chunk have sizes b, ..., b and then a remainder of 1..b, hold every
\* successful result of the chunk once, in processing order, and a chunk
\* that ends with m successful results has made ceil(m/b) calls.
C10_Batches ==
    (job.onBatchComplete /\ job.nPages >= 1) =>
        \A k \in Workers : BatchesInOrder(k, job.batchSize)

\* one page, batch size 2: onBatchComplete rejected the batch <<1, 2>> and was
\* then handed <<1, 2, 3>>
C10_BatchTooLarge ==
    /\ job.nPages = 1 /\ job.batchSize = 2
    /\ Len(batches) = 1
    /\ batches[1] = <<(<<1, 2>>), (<<1, 2, 3>>)>>

\* the batches are well formed as long as no callback has failed
BatchesInOrderUnlessCallbackFailed == cbThrew \/ C10_Batches

\* the call rejects, or leaves an item out, only after a callback has failed
ReturnsUnlessCallbackFailed ==
    /\ [](cbThrew \/ /\ outcome.state # "rejected"
                     /\ \A k \in Workers : workers[k].pc # "rejected"
                     /\ \A i \in 1..job.nItems : attempts[i] <= 1
                     /\ outcome.state = "returned" =>
                            \A i \in 1..job.nItems : attempts[i] = 1)
    /\ <>(cbThrew \/ outcome.state = "returned")

----------------------------------------------------------------------------
(* The order of the processItemFn calls of one chunk *)

\* the positions of chunk k whose item has been handed to processItemFn
Started(k) == {j \in 1..Len(chunks[k]) : attempts[chunks[k][j]] > 0}

\* the positions of chunk k whose processItemFn call has not settled
InFlight(k) == {j \in Started(k) : settled[chunks[k][j]] = "none"}

\* worker k awaits a call of onBatchComplete
Flushing(k) == workers[k].pc \in {"onBatchComplete", "leftover"}

\* the page of chunk k: pages[pageIndex] of line 604
PageOfChunk(k) == IF k <= job.nPages THEN k ELSE 0

\* the items of chunk k are started from the front, once each, and at most
\* one call of the chunk (processItemFn or onBatchComplete) is awaited
OneAtATime(k) ==
    /\ workers[k].page = PageOfChunk(k)
    /\ Started(k) = 1..Cardinality(Started(k))
    /\ \A j \in Started(k) : attempts[chunks[k][j]] = 1
    /\ Cardinality(InFlight(k)) + (IF Flushing(k) THEN 1 ELSE 0) <= 1
    /\ InFlight(k) \subseteq {Cardinality(Started(k))}
    /\ InFlight(k) # {} <=> workers[k].pc = "processItemFn"

\* a step that starts an item of chunk k starts the first one not started,
\* and leaves no earlier call of the chunk unsettled
StartsNext(k) ==
    Started(k)' # Started(k) =>
        /\ Started(k)' = Started(k) \cup {Cardinality(Started(k)) + 1}
        /\ InFlight(k)' = {Cardinality(Started(k)) + 1}
        /\ ~Flushing(k)'

\* C11: the items of a chunk are handed to processItemFn on the chunk's page
\* in input order, once each; an item is started only when the call for the
\* item before it, and the flush that followed, have settled; no page has
\* two processItemFn calls in flight.
C11_InOrderOneAtATime ==
    /\ [](outcome.state # "none" =>
            /\ \A k \in Workers : OneAtATime(k)
            /\ \A p \in 1..job.nPages :
                  Cardinality({k \in Workers : workers[k].page = p
                                               /\ InFlight(k) # {}}) <= 1)
    /\ [][outcome.state # "none" => \A k \in Workers : StartsNext(k)]_vars

\* two pages and five items: the second chunk has had two items settled and
\* awaits its flush while the first chunk still awaits its first item
C11_Witness ==
    /\ job.nPages = 2 /\ job.nItems = 5 /\ job.batchSize = 2 /\ job.onBatchComplete
    /\ InFlight(1) = {1}
    /\ Started(2) = {1, 2} /\ InFlight(2) = {}
    /\ workers[2].pc = "onBatchComplete"

----------------------------------------------------------------------------
(* The chunks of splitIntoChunks *)

\* c is the least integer that is at least n / k
IsCeiling(c, n, k) == c * k >= n /\ (c - 1) * k < n

\* C12: for a list of length n and a chunk count k >= 1, splitIntoChunks
\* returns chunks whose concatenation is the list, at most k of them, none
\* empty, all but the last of size ceil(n/k); an empty list gives no chunk.
C12_Chunking ==
    (split.state = "returned" /\ split.chunkCount >= 1) =>
        LET cs == split.chunks
            n == Len(split.items)
            k == split.chunkCount IN
        /\ Flat(cs) = split.items
        /\ Len(cs) <= k
        /\ \A j \in DOMAIN cs : Len(cs[j]) >= 1
        /\ \A j \in DOMAIN cs : j < Len(cs) => IsCeiling(Len(cs[j]), n, k)
        /\ n = 0 => cs = <<>>

\* ten items in three chunks: the sizes are 4, 4 and 2
C12_Witness ==
    /\ split.state = "returned"
    /\ Len(split.items) = 10 /\ split.chunkCount = 3
    /\ Len(split.chunks) = 3
    /\ Len(split.chunks[1]) = 4 /\ Len(split.chunks[2]) = 4 /\ Len(split.chunks[3]) = 2

----------------------------------------------------------------------------
(* The clients of the messaging service *)

\* the callers whose call is in flight
InCall == {t \in MqCallers : callers[t].pc \in {"reconnect", "dispatch"}}

----------------------------------------------------------------------------
(* The reconnect of a client marked disconnected *)

\* the calls that got as far as looking the queue up
Called == {t \in MqCallers : callers[t].op # "none"}

\* the reconnect attempt of caller t settles in this step
ReconnectSettles(t) == callers[t].pc = "reconnect" /\ callers'[t].pc # "reconnect"

----------------------------------------------------------------------------
(* The errors of emit and send *)

\* the calls that have settled
Settled == {t \in MqCallers : callers[t].pc = "done"}

----------------------------------------------------------------------------
(* The shutdown of the messaging service *)

\* the clients close was called on
ClosedClients == {shutdown.closed[i] : i \in DOMAIN shutdown.closed}

----------------------------------------------------------------------------
(* The login to Coupang *)

\* loginToCoupangSite where the site shows the login form, or not
CoupangLogin(c, p, o, form) == [CoupangOf(c, p, o) EXCEPT !.form = form]

\* the operations of lines 477-483, in order
FormSteps == <<"fill #username", "fill #password", "press Enter", "waitForLoadState">>

\* what the settled call did of them
FormEvents(r) ==
    SelectSeq(r.done.events, LAMBDA ev : \E i \in DOMAIN FormSteps : ev = FormSteps[i])

\* C17: when the detector finds no login form, loginToCoupangSite returns the
\* page right after the detection, with no fill, no key press and no wait
\* after it; the fills of #username and #password, the Enter key and the
\* wait happen, in this order, only when the detector found the form.
C17_LoginShortCircuit ==
    \A c \in ContextIds, p \in PageIds, o \in Engines, form \in BOOLEAN :
        LET r == After(1, CoupangLogin(c, p, o, form)) IN
        r.go # "full" =>
            /\ r.done.ok
            /\ MapHas(r.pagePool, p) /\ r.done.rv = MapGet(r.pagePool, p).page
            /\ r.pages[r.done.rv].open
            /\ ~form => /\ FormEvents(r) = <<>>
                        /\ r.done.events[Len(r.done.events)] = "evaluate"
            /\ form => /\ FormEvents(r) = FormSteps
                       /\ \E i \in DOMAIN r.done.events :
                             /\ r.done.events[i] = "evaluate"
                             /\ SubSeq(r.done.events, i + 1, Len(r.done.events)) = FormSteps

\* a page is pooled and open, and a login on it that finds no form ends with
\* the detection
C17_Witness ==
    /\ pagePool # <<>>
    /\ pages[pagePool[1].page].open
    /\ LET r == After(1, CoupangLogin(contextPool[1].id, pagePool[1].id, "chromium", FALSE))
           s == After(1, CoupangLogin(contextPool[1].id, pagePool[1].id, "chromium", TRUE)) IN
       /\ r.go # "full" /\ r.done.ok
       /\ r.done.rv = pagePool[1].page
       /\ r.done.events = <<"goto", "evaluate">>
       /\ s.go # "full" /\ s.done.ok
       /\ s.done.events = <<"goto", "evaluate">> \o FormSteps

----------------------------------------------------------------------------
(* The credentials of the login to Onch, brand-aware variant *)

ManagerOnchOf(s, c, p, o) ==
    [Frame("managerLoginToOnchSite") EXCEPT !.store = s, !.cid = c, !.pid = p, !.opt = o]

\* the fills of a settled call
Fills(r) ==
    SelectSeq(r.done.events,
              LAMBDA ev : \E key \in {"L_ON_CHANNEL_EMAIL", "L_ON_CHANNEL_PASSWORD",
                                       "R_ON_CHANNEL_EMAIL", "R_ON_CHANNEL_PASSWORD",
                                       "ON_CHANNEL_EMAIL", "ON_CHANNEL_PASSWORD"} :
                            ev = "fill email " \o key \/ ev = "fill password " \o key)

----------------------------------------------------------------------------
(* closeAll *)

\* what a settled call closed, in order
CloseEvents(r) ==
    SelectSeq(r.done.events,
              LAMBDA ev : \/ ev = "browser.close"
                          \/ \E p \in PageIds : ev = "page.close " \o p
                          \/ \E c \in ContextIds : ev = "context.close " \o c)

\* the pooled pages, then the pooled sessions, then the browser
TeardownOrder ==
    [i \in DOMAIN pagePool |-> "page.close " \o pagePool[i].id]
    \o [i \in DOMAIN contextPool |-> "context.close " \o contextPool[i].id]
    \o (IF browser # 0 THEN <<"browser.close">> ELSE <<>>)

\* C19: closeAll closes every pooled page, then every pooled session, then
\* the browser process, and returns with both pools empty, the pages, the
\* sessions and the process closed and isInitialized false; the next
\* getOrCreateContext launches a new process.
C19_CloseAll ==
    LET r == After(1, Frame("closeAll")) IN
    /\ r.done.ok
    /\ CloseEvents(r) = TeardownOrder
    /\ r.pagePool = <<>> /\ r.contextPool = <<>>
    /\ ~r.isInitialized
    /\ \A i \in DOMAIN pagePool : ~r.pages[pagePool[i].page].open
    /\ \A i \in DOMAIN contextPool : ~r.contexts[contextPool[i].context].open
    /\ browser # 0 => ~BrowserOpen(r.browsers, browser)
    /\ \A c \in ContextIds :
          LET n == AfterFrom(Collect(r), 1, Goc(c)) IN
          n.go # "full" =>
              /\ n.done.ok
              /\ Launches(n) = 1
              /\ n.isInitialized /\ BrowserOpen(n.browsers, n.browser)
              /\ n.contexts[n.done.rv].browser = n.browser
              /\ n.contexts[n.done.rv].open

\* two pooled pages in two pooled sessions: closeAll closes the two pages,
\* the two sessions and the browser, and getOrCreateContext launches anew
C19_Witness ==
    /\ Len(pagePool) = 2 /\ Len(contextPool) = 2
    /\ isInitialized
    /\ pages[pagePool[1].page].open /\ pages[pagePool[2].page].open
    /\ LET r == After(1, Frame("closeAll"))
           n == AfterFrom(Collect(r), 1, Goc(contextPool[1].id)) IN
       /\ Len(CloseEvents(r)) = 5
       /\ r.pagePool = <<>> /\ r.contextPool = <<>> /\ ~r.isInitialized
       /\ n.go # "full" /\ Launches(n) = 1

----------------------------------------------------------------------------
(* releasePage *)

\* releasePage(p) whose page.close() rejects, or not
ReleasePageOf(p, fails) == [Frame("releasePage") EXCEPT !.pid = p, !.fails = fails]

\* C20: releasePage(p) raises nothing and leaves p out of the page pool, so
\* that getPage(p) returns null, whether page.close() fulfilled or rejected;
\* every other entry of the page pool keeps its place and its page, every
\* other page and every session is as before, and for an id that is not
\* pooled nothing changes at all.
C20_ReleasePage ==
    \A p \in PageIds, fails \in BOOLEAN :
        LET r == After(1, ReleasePageOf(p, fails))
            k == IndexOf(pagePool, p)
            g == AfterFrom(r, 1, [Frame("getPage") EXCEPT !.pid = p]) IN
        /\ r.go # "full" /\ r.done.ok
        /\ ~MapHas(r.pagePool, p)
        /\ g.done.ok /\ g.done.rv = 0
        /\ r.pagePool = Without(pagePool, {k})
        /\ r.contextPool = contextPool /\ r.contexts = contexts
        /\ r.browsers = browsers /\ r.browser = browser
        /\ r.isInitialized = isInitialized
        /\ \A q \in DOMAIN pages : (k = 0 \/ q # pagePool[k].page) => r.pages[q] = pages[q]
        /\ k = 0 => r.pages = pages /\ r.pagePool = pagePool
        /\ (k # 0 /\ ~fails) => ~r.pages[pagePool[k].page].open

\* two open pages are pooled: releasePage of the first, whose close rejects,
\* returns with only the second one pooled, and getPage finds the first no more
C20_Witness ==
    /\ Len(pagePool) = 2
    /\ pages[pagePool[1].page].open /\ pages[pagePool[2].page].open
    /\ LET r == After(1, ReleasePageOf(pagePool[1].id, TRUE))
           g == AfterFrom(r, 1, [Frame("getPage") EXCEPT !.pid = pagePool[1].id]) IN
       /\ r.done.ok
       /\ r.pagePool = <<pagePool[2]>>
       /\ r.pages[pagePool[1].page].open
       /\ g.done.rv = 0

----------------------------------------------------------------------------
(* The calls of onProgress *)

\* the items of chunk k whose turn of the loop has ended
DoneItems(k) ==
    IF workers[k].pc \in {"processItemFn", "onBatchComplete"}
    THEN workers[k].i - 1 ELSE workers[k].i

RECURSIVE DoneUpTo(_)
DoneUpTo(k) == IF k = 0 THEN 0 ELSE DoneUpTo(k - 1) + DoneItems(k)

\* the items whose turn has ended, over all chunks
Done == DoneUpTo(Len(workers))

\* C21: when onProgress is supplied it is called once per processed item,
\* with total = items.length and completed = 1, 2, ..., n in that order over
\* all chunks, and when the call returns the last completed equals total.
C21_ProgressOncePerItem ==
    job.onProgress =>
        /\ Len(progress) = Done
        /\ \A j \in DOMAIN progress :
              /\ progress[j].completed = j
              /\ progress[j].total = job.nItems
        /\ outcome.state = "returned" => Len(progress) = job.nItems

\* one page and one item: processItemFn fulfilled, onProgress(1, 1) threw and
\* the catch block called onProgress(2, 1) for the same item
C21_ReportedTwice ==
    /\ job.nPages = 1 /\ job.nItems = 1 /\ job.onProgress
    /\ settled[1] = "fulfilled"
    /\ progress = <<[completed |-> 1, total |-> 1], [completed |-> 2, total |-> 1]>>

\* onProgress is called as claimed as long as no callback has failed
ProgressOncePerItemUnlessCallbackFailed == cbThrew \/ C21_ProgressOncePerItem

\* two pages, five items, no callback failed: the call has returned after
\* onProgress(1, 5), ..., onProgress(5, 5)
ProgressOncePerItemWitness ==
    /\ job.nPages = 2 /\ job.nItems = 5 /\ job.onProgress /\ ~cbThrew
    /\ outcome.state = "returned"
    /\ Len(progress) = 5
    /\ Cardinality(Rejected) = 2

----------------------------------------------------------------------------
(* The pages of a parallel job *)

\* the list rvs holds n pairwise distinct pages and, in state r, the i-th is
\* the pool entry of the i-th page id of the job and belongs to the session
\* pooled for the job
ParallelPagesOf(r, rvs, s, c, n) ==
    LET cid == ParallelContextId(s, c) IN
    /\ Len(rvs) = n
    /\ \A i, j \in 1..n : i # j => rvs[i] # rvs[j]
    /\ n > 0 => MapHas(r.contextPool, cid)
    /\ \A i \in 1..n :
          LET pid == ParallelPageId(s, c, i - 1) IN
          /\ MapHas(r.pagePool, pid)
          /\ MapGet(r.pagePool, pid).page = rvs[i]
          /\ MapGet(r.pagePool, pid).contextId = cid
          /\ r.pages[rvs[i]].context = MapGet(r.contextPool, cid).context

\* C22: createParallelPages(store, jobId, n) returns n pairwise distinct
\* pages in order, the i-th pooled under page-{store}-{jobId}-{i} and
\* belonging to session context-{store}-{jobId}; the same call made again
\* with no release between returns the same page objects and creates no page
\* and no session.
C22_ParallelPages ==
    \A s \in Stores, c \in CronIds, n \in 0..MaxParallel :
        LET r1 == After(1, ParallelOf(s, c, n))
            r2 == AfterFrom(r1, 1, ParallelOf(s, c, n)) IN
        (r1.go # "full" /\ r1.done.ok) =>
            /\ ParallelPagesOf(r1, r1.done.rvs, s, c, n)
            /\ r2.go # "full" /\ r2.done.ok
            /\ r2.done.rvs = r1.done.rvs
            /\ r2.pages = r1.pages
            /\ r2.contexts = r1.contexts
            /\ r2.browsers = r1.browsers
            /\ r2.pagePool = r1.pagePool
            /\ r2.contextPool = r1.contextPool

\* only the first page of the job is pooled, in the job's session: the call
\* for two pages hands that page back and creates the second, and the call
\* made again returns these two
C22_Witness ==
    LET r1 == After(1, ParallelOf("A", "1", 2))
        r2 == AfterFrom(r1, 1, ParallelOf("A", "1", 2)) IN
    /\ MapHas(pagePool, ParallelPageId("A", "1", 0))
    /\ MapGet(pagePool, ParallelPageId("A", "1", 0)).contextId
          = ParallelContextId("A", "1")
    /\ ~MapHas(pagePool, ParallelPageId("A", "1", 1))
    /\ r1.go # "full" /\ r1.done.ok
    /\ Len(r1.done.rvs) = 2
    /\ r1.done.rvs[1] = MapGet(pagePool, ParallelPageId("A", "1", 0)).page
    /\ r1.done.rvs[2] # r1.done.rvs[1]
    /\ r1.pages # pages
    /\ r2.done.ok
    /\ r2.done.rvs = r1.done.rvs
    /\ r2.pages = r1.pages

----------------------------------------------------------------------------
(* The page pool and the session pool *)

\* the session objects of the session pool
PooledSessions == {contextPool[j].context : j \in DOMAIN contextPool}

\* C23: whatever the interleaving of the calls, every page of the page pool
\* belongs to a session of the session pool and to the browser process the
\* manager runs: no pool entry refers to a page whose session has been closed
\* and taken out of the session pool.
C23_PooledPagesInPooledSessions ==
    \A i \in DOMAIN pagePool :
        LET c == pages[pagePool[i].page].context IN
        /\ c \in PooledSessions
        /\ contexts[c].browser = browser
        /\ browsers[browser].state = "open"

\* every call has settled, the browser runs, and the page pool holds a page
\* whose session is closed and no longer in the session pool
C23_OrphanedPage ==
    /\ \A t \in Tasks : Idle(t)
    /\ isInitialized
    /\ browsers[browser].state = "open"
    /\ \E i \in DOMAIN pagePool :
          LET c == pages[pagePool[i].page].context IN
          /\ ~contexts[c].open
          /\ c \notin PooledSessions
          /\ ~pages[pagePool[i].page].open

\* with one caller, between two calls, the pools are as C23 says
PooledPagesInPooledSessionsOneCaller ==
    Len(tasks) = 1 => C23_PooledPagesInPooledSessions

----------------------------------------------------------------------------
(* The connected flag *)

\* caller u's last call failed in the dispatch on the client that is cached
\* for its queue
DispatchFailedOn(u) ==
    /\ callers[u].pc = "done"
    /\ callers[u].result.state = "threw"
    /\ callers[u].client # 0
    /\ HasClient(callers[u].queue)
    /\ MapGet(clients, callers[u].queue).client = callers[u].client

\* caller t begins a call on queue q in this step
BeginsOn(t, q) ==
    /\ callers[t].pc \in {"idle", "done"}
    /\ callers'[t].pc \notin {"idle", "done"}
    /\ callers'[t].queue = q

----------------------------------------------------------------------------
(* The pages of the chunks *)

\* C25: for every list of pages, the empty one included, and every list of
\* items, processItemsInParallel builds no more chunks than there are pages:
\* every call of processItemFn is given a page of the list, never undefined,
\* and no two chunks are given the same page.
C25_ChunksWithinPages ==
    /\ outcome.state # "none" =>
          /\ Len(workers) = Len(chunks)
          /\ Len(chunks) <= job.nPages
    /\ \A k \in Workers :
          /\ workers[k].page \in 1..job.nPages
          /\ \A l \in Workers : l # k => workers[l].page # workers[k].page

\* no page and two items: one chunk holds both items, its page is undefined
\* and processItemFn has been called with it for both
C25_UndefinedPage ==
    /\ job.nPages = 0 /\ job.nItems = 2
    /\ Len(workers) = 1
    /\ chunks = <<(<<1, 2>>)>>
    /\ workers[1].page = 0
    /\ attempts = <<1, 1>>
    /\ settled[1] = "fulfilled"

\* with at least one page the chunks are as C25 says
ChunksWithinPagesGivenAPage == job.nPages >= 1 => C25_ChunksWithinPages

\* two pages and five items: two chunks on the two pages
ChunksWithinPagesWitness ==
    /\ job.nPages = 2 /\ job.nItems = 5
    /\ Len(workers) = 2
    /\ workers[1].page = 1 /\ workers[2].page = 2
    /\ outcome.state = "returned"

----------------------------------------------------------------------------
(* The counts when a callback fails *)

RECURSIVE AttemptsUpTo(_)
AttemptsUpTo(n) == IF n = 0 THEN 0 ELSE AttemptsUpTo(n - 1) + attempts[n]

\* the calls of processItemFn made so far
Attempted == AttemptsUpTo(job.nItems)

\* C26: whatever onBatchComplete and onProgress do, throwing included, every
\* item is counted once: successCount + failCount never exceeds the number
\* of items attempted (no item is counted as a success and as a failure),
\* and the results are exactly the outputs of the items counted as
\* successes.
C26_CountedOnce ==
    /\ successCount + failCount <= Attempted
    /\ successCount <= Len(allResults)
    /\ outcome.state = "returned" =>
          /\ outcome.successCount + outcome.failCount <= job.nItems
          /\ Len(outcome.results) = outcome.successCount

\* one page and one item, no onBatchComplete: processItemFn fulfilled,
\* onProgress threw after the success was counted, the catch block counted
\* the item again and the call returned successCount 1 and failCount 1
C26_CountedTwice ==
    /\ job.nPages = 1 /\ job.nItems = 1 /\ job.onProgress /\ ~job.onBatchComplete
    /\ settled[1] = "fulfilled"
    /\ outcome.state = "returned"
    /\ outcome.successCount = 1
    /\ outcome.failCount = 1
    /\ outcome.results = <<1>>

\* the counts are as C26 says as long as no callback has failed
CountedOnceUnlessCallbackFailed == cbThrew \/ C26_CountedOnce

\* one page and one item with onBatchComplete and batch size 1: the flush of
\* the output rejected, the item was counted as a failure and the call
\* returned its output among the results
ResultOfCountedFailure ==
    /\ job.nPages = 1 /\ job.nItems = 1 /\ job.onBatchComplete /\ job.batchSize = 1
    /\ ~job.onProgress
    /\ settled[1] = "fulfilled"
    /\ outcome.state = "returned"
    /\ outcome.successCount = 0
    /\ outcome.failCount = 1
    /\ outcome.results = <<1>>

----------------------------------------------------------------------------
(* Callbacks that fail *)

\* C27: processItemsInParallel never rejects because of a callback: an error
\* of onBatchComplete (in the chunk or at its last flush) or of onProgress
\* (after a success or after a failure) leaves no chunk closure, the items
\* behind it are still processed and the call returns the counts.
C27_CallbackFailureAbsorbed ==
    /\ outcome.state # "rejected"
    /\ \A k \in Workers :
          /\ workers[k].pc # "rejected"
          /\ workers[k].pc = "fulfilled" => workers[k].i = Len(chunks[k])
    /\ outcome.state = "returned" => Attempted = job.nItems

\* one page, one item, batch size 2, no onProgress: processItemFn fulfilled,
\* the last flush of the chunk rejected and the call rejected
C27_RejectedByCallback ==
    /\ job.nPages = 1 /\ job.nItems = 1 /\ job.batchSize = 2
    /\ job.onBatchComplete /\ ~job.onProgress
    /\ settled[1] = "fulfilled"
    /\ successCount = 1 /\ failCount = 0
    /\ cbThrew
    /\ outcome.state = "rejected"

\* one page, two items, no onBatchComplete: processItemFn rejected for the
\* first item, onProgress threw in the catch block, the second item was
\* never attempted and the call rejected
RejectedByOnProgress ==
    /\ job.nPages = 1 /\ job.nItems = 2 /\ job.onProgress /\ ~job.onBatchComplete
    /\ settled[1] = "rejected"
    /\ attempts = <<1, 0>>
    /\ progress = <<[completed |-> 1, total |-> 2]>>
    /\ outcome.state = "rejected"

----------------------------------------------------------------------------
(* The page a login returns *)

\* the calls of the two logins
LoginFrames ==
    {OnchOf(s, c, p, o) : s \in LoginStores, c \in ContextIds, p \in PageIds,
                          o \in Engines}
    \cup {CoupangLogin(c, p, o, form) : c \in ContextIds, p \in PageIds,
                                        o \in Engines, form \in BOOLEAN}

\* in state r the page rv is the open pool entry of page id p, belongs to the
\* session pooled under c and runs in an open process of engine o
LoggedInPage(r, rv, c, p, o) ==
    /\ MapHas(r.pagePool, p)
    /\ MapGet(r.pagePool, p).page = rv
    /\ r.pages[rv].open
    /\ MapHas(r.contextPool, c)
    /\ r.pages[rv].context = MapGet(r.contextPool, c).context
    /\ r.contexts[r.pages[rv].context].browser = r.browser
    /\ r.browsers[r.browser].state = "open"
    /\ r.browsers[r.browser].engine = o

\* C28: the page that loginToOnchSite(store, sessionId, pageId, engine) or
\* loginToCoupangSite(sessionId, pageId, engine) returns is the pool entry
\* for pageId, is open, belongs to the session pooled under sessionId and
\* runs in a process of the requested engine, also when pageId was created
\* in another session before.
C28_LoginPage ==
    \A frame \in LoginFrames :
        LET r == After(1, frame) IN
        (r.go # "full" /\ r.done.ok) =>
            LoggedInPage(r, r.done.rv, frame.cid, frame.pid, frame.opt)

\* page-A-1-1 is pooled, open, in session s2 and no session context-A-1 is
\* pooled: loginToCoupangSite("context-A-1", "page-A-1-1") with the running
\* engine returns that page of s2 and pools no session context-A-1
C28_PageOfOtherSession ==
    LET p == ParallelPageId("A", "1", 0)
        c == ParallelContextId("A", "1") IN
    /\ isInitialized
    /\ MapHas(pagePool, p)
    /\ MapGet(pagePool, p).contextId = "s2"
    /\ pages[MapGet(pagePool, p).page].open
    /\ ~MapHas(contextPool, c)
    /\ LET r == After(1, CoupangLogin(c, p, browsers[browser].engine, TRUE)) IN
       /\ r.go # "full" /\ r.done.ok
       /\ r.done.rv = MapGet(pagePool, p).page
       /\ r.pages[r.done.rv].context = MapGet(contextPool, "s2").context
       /\ ~MapHas(r.contextPool, c)

\* the page id of the call is pooled with an open page of another session
\* and of the requested engine: the case in which the logins reuse the page
PooledElsewhere(frame) ==
    /\ MapHas(pagePool, frame.pid)
    /\ pages[MapGet(pagePool, frame.pid).page].open
    /\ MapGet(pagePool, frame.pid).contextId # frame.cid
    /\ isInitialized
    /\ browsers[browser].engine = frame.opt

\* the page of a login is as C28 says unless its id was pooled in another
\* session
LoginPageUnlessPooledElsewhere ==
    \A frame \in LoginFrames :
        LET r == After(1, frame) IN
        (r.go # "full" /\ r.done.ok /\ ~PooledElsewhere(frame)) =>
            LoggedInPage(r, r.done.rv, frame.cid, frame.pid, frame.opt)

\* a login that switches the engine and creates its session and its page
LoginPageWitness ==
    LET r == After(1, OnchOf("A", "s2", ParallelPageId("A", "1", 0), "firefox")) IN
    /\ isInitialized
    /\ browsers[browser].engine = "chromium"
    /\ Len(pagePool) = 1
    /\ r.go # "full" /\ r.done.ok
    /\ LoggedInPage(r, r.done.rv, "s2", ParallelPageId("A", "1", 0), "firefox")

=============================================================================
